---- MODULE Spec2Model ----
(***************************************************************************)
(* The adaptive feed-polling engine of rssskull.                           *)
(*                                                                         *)
(* Spec    the per-feed pipeline of the scheduler tick:                    *)
(*         FeedChecker.check_feed, RSSService.get_new_items and            *)
(*         FeedService.update_feed_last_check, with the remote feed, the   *)
(*         feed cache and the chat backend as the environment.             *)
(* SpecCB  the per-resource circuit breaker (utils/circuit_breaker.py).    *)
(* SpecRL  the per-domain rate limiter (utils/rate_limiter.py), called by   *)
(*         two tasks.                                                      *)
(* SpecFetch  RSSService._fetch_feed_from_url for one URL, with the        *)
(*         breaker, the limiter, the feed cache, the statistics and the    *)
(*         alert service it uses.                                          *)
(* SpecTick   the loop of FeedChecker.check_all_feeds over the due feeds.  *)
(* SpecStats  BlockingStatsService and the cleanup job of the monitor.     *)
(* SpecAlert  BlockingAlertService as the fetcher and the monitor job call *)
(*         it.                                                             *)
(* SpecDb  the pipeline of Spec over a database whose writes can fail.     *)
(* SpecSession  SessionManager called by two tasks, and shutdown_event.    *)
(* SpecReddit   RedditFallbackChain.fetch_reddit_feed for one subreddit.   *)
(* SpecSan      sanitize_html_for_telegram applied to a text, and to its   *)
(*         own result.                                                     *)
(*                                                                         *)
(* check_feed is split at its awaits: the get_new_items call, the second   *)
(* fetch of the baseline branch, the update of the feed row and one step   *)
(* per item of the notification loop.                                      *)
(***************************************************************************)
EXTENDS Integers, Sequences, FiniteSets, TLC

(* ------------------------------ bounds --------------------------------- *)
\* largest number of items the remote feed ever holds
MaxItems == 3
\* the clock of the pipeline runs from 1 to MaxNow; pub_dates are on this clock
MaxNow == 3

\* check_interval_minutes of a feed that add_feed creates; one unit of the
\* clock is one such interval
CheckIntervalMinutes == 10
MinutesPerUnit == CheckIntervalMinutes

\* the breaker: largest failure_counts entry, and number of clock advances
MaxFailures == 6
MaxAdvances == 3

\* CircuitBreaker.__init__
FailureThreshold == 5
InitialTimeout == 3600
MaxTimeout == 86400

\* the resources (feed URLs) the breaker is asked about
Resources == {"u1", "u2"}

\* the rate limiter: number of calls made to it (and of pauses between them)
MaxRLCalls == 5

\* RateLimiter.__init__, in seconds
MinDelay == 5
MaxDelay == 300

\* delays and the limiter's clock are counted in 1/DelayScale seconds: every
\* product by 2, 3, 1.5 or 0.9 that MaxRLCalls calls can make is then exact
DelayScale == 10 ^ MaxRLCalls

\* the domains the limiter is asked about, and the tasks that ask it
Domains == {"d1"}
Tasks == {"t1", "t2"}

\* status codes of a failed request: 0 is a timeout or an error without status
StatusCodes == {429, 403, 500, 0}

\* the fetcher: number of _fetch_feed_from_url calls
MaxFetches == 2

\* the numbers of items a parsed response holds: none, or some
EntryCounts == {0, 1}

\* RSSService.__init__: max_retries, and base_delay and max_delay of the
\* backoff between two attempts, in milliseconds
MaxRetries == 3
BaseDelay == 1000
MaxBackoff == 30000

\* the scheduler tick: largest number of enabled feeds
MaxTickFeeds == 3

\* calls made to BlockingStatsService, and the days its clock runs for
MaxStatsCalls == 3
MaxStatsDays == 8

\* blocking_monitor.cleanup_old_stats: reset_old_stats(days=7)
ResetDays == 7

\* outcomes of requests the alert service lives through
MaxAlertCalls == 5

\* the domains with a row in the statistics, and the User-Agent strings
StatsDomains == {"d1", "d2"}
UserAgents == {"ua1"}

\* the URL the fetcher is called with, its domain, and the task that runs it
FetchUrl == "u1"
FetchDomain == "d1"
FetchTask == "t1"

\* the status of 400 or more the source answers with: rate-limited
FetchStatuses == {403}

\* BlockingAlertService.alert_cooldown, in seconds
AlertCooldown == 3600

\* Optional[datetime] None, and Optional[str] None of an item id
NoDate == 0
NoId == 0

\* Feed.max_age_minutes of the feed row: 0 switches the age filter off, the
\* other value is half a check interval
MaxAges == {0, CheckIntervalMinutes \div 2}

VARIABLES
    utcnow,            \* datetime.utcnow()
    remote,            \* the items the source serves now, in the source's order
    cacheOn,           \* not CacheService.disabled
    cache,             \* the value under feed:{url}, <<>> when the key is absent
    feed,              \* the Feed row in the database
    pc,                \* position of check_feed
    snap,              \* the Feed object the tick loaded
    fetched,           \* result of the fetch made by get_new_items
    result,            \* what get_new_items returned
    new_last_item_id,  \* check_feed local
    last_notified,     \* check_feed local
    pending,           \* items of new_items the loop has not reached yet
    \* history of the current check and of the run
    baseFeed,          \* result of the second fetch of the baseline branch
    committed,         \* update_feed_last_check has run in this check
    attempted,         \* number of items this check tried to send
    sends,             \* the send_message calls made for the last such item
    sentNow,           \* ids delivered by this check
    lost,              \* ids dropped by the age filter or whose two sends failed
    baselineIds,       \* ids in the feed at the first observation
    notified,          \* ids delivered so far
    dirty,             \* the remote changed or a fetch failed since the previous check began
    stable             \* this check and the previous one saw no external change

VARIABLES
    time,              \* time.time(), in seconds
    advances,          \* number of times the clock has moved
    states,            \* CircuitBreaker.states
    failure_counts,    \* CircuitBreaker.failure_counts
    open_until,        \* CircuitBreaker.open_until
    \* history of the calls
    last_allow,        \* per resource: the last should_allow_request call
    streak,            \* record_failure calls since the last record_success
    open_timeout,      \* timeout the resource was last opened with
    prev_timeout,      \* timeout of the open period before that
    probe_failed,      \* the resource was last opened by a failed half-open probe
    alerted            \* resources the last step emitted a circuit-open alert for

cbVars == <<time, advances, states, failure_counts, open_until, last_allow,
            streak, open_timeout, prev_timeout, probe_failed, alerted>>

VARIABLES
    rl_now,             \* time.time() as the limiter reads it
    rl_calls,           \* calls made to the limiter so far
    domain_delays,      \* RateLimiter.domain_delays
    last_request_time,  \* RateLimiter.last_request_time
    rl_failure_counts,  \* RateLimiter.failure_counts
    wpc,                \* per task: where it is in wait_if_needed
    wake,               \* per task: when its asyncio.sleep ends
    wdomain,            \* per task: the domain it waits for
    wdelay,             \* per task: the current_delay it read
    \* history
    rl_last             \* what the last step was: a record_success or
                        \* record_failure call (with its status), or a return
                        \* of wait_if_needed (with the current_delay it read)

rlVars == <<rl_now, rl_calls, domain_delays, last_request_time,
            rl_failure_counts, wpc, wake, wdomain, wdelay, rl_last>>

VARIABLES
    fpc,                \* position of _fetch_feed_from_url: idle, wait, get, backoff
    attempt,            \* the loop variable of the retry loop
    fetches,            \* calls of _fetch_feed_from_url so far
    feed_entry,         \* number of items of the value under feed:{url}, <<>> when absent
    meta_entry,         \* feed_meta:{url} holds an etag or a last_modified
    f_result,           \* what the last call returned
    last_error,         \* the local last_error of the call, "" for None and
                        \* after a call that returned success
    db_up,              \* the database can be reached during the call
    domain_preferences, \* UserAgentPool.domain_preferences[domain][user_agent]
                        \* of the one domain and User-Agent of the fetcher
    \* history
    prev_get            \* the last GET: when it was sent, whether the
                        \* answer was a 304 without a cached feed to return,
                        \* and the error its handling raised, "" when none

fetchVars == <<fpc, attempt, fetches, feed_entry, meta_entry, f_result,
               last_error, db_up, domain_preferences, prev_get>>

pipeVars == <<utcnow, remote, cacheOn, cache, feed, pc, snap, fetched, result,
              new_last_item_id, last_notified, pending, baseFeed, committed,
              attempted, sends, sentNow, lost, baselineIds, notified, dirty,
              stable>>

VARIABLES
    tick_feeds,         \* the feeds get_all_enabled_feeds returned, as what
                        \* checking each of them will do
    tick_i,             \* position of the loop of check_all_feeds, 0 outside a tick
    tick_checked,       \* positions check_feed was called for in this tick
    tick_stats          \* the stats dict of the tick: checked, skipped, errors

tickVars == <<tick_feeds, tick_i, tick_checked, tick_stats>>

VARIABLES
    stats_rows,         \* the BlockingStats table: domain -> row
    stats_now,          \* datetime.utcnow() as the statistics read it, in days
    stats_calls,        \* calls the jobs of SpecStats have made so far
    stats_last          \* the call the last step made to it, "" when none

statsVars == <<stats_rows, stats_now, stats_calls, stats_last>>

VARIABLES
    consecutive_blocks,         \* BlockingAlertService.consecutive_blocks
    first_block_alerted,        \* domains in BlockingAlertService.first_block_alerted
    consecutive_block_alerted,  \* BlockingAlertService.consecutive_block_alerted
    low_success_rate_alerted,   \* BlockingAlertService.low_success_rate_alerted
    alert_calls,                \* responses SpecAlert has seen so far
    \* history
    block_alerts,               \* domains the last step emitted a consecutive-blocks
                                \* alert for
    blocked_run,                \* per domain: how many of its last requests in a
                                \* row were answered 403, counted up to three
    low_alerts                  \* the low-success-rate alerts the last step
                                \* emitted, as what their message says

alertVars == <<consecutive_blocks, first_block_alerted,
               consecutive_block_alerted, low_success_rate_alerted,
               alert_calls, block_alerts, blocked_run, low_alerts>>

VARIABLES
    sessions,           \* SessionManager.sessions, in the order of the dict:
                        \* a sequence of (domain, session, created_at)
    sm_created,         \* ClientSession objects created so far; a session is
                        \* named by its number
    sm_open,            \* the sessions created and not closed
    sm_tasks,           \* per task: where it is in get_session or close_all,
                        \* and the session it was handed
    scheduler_running,  \* SchedulerService.running
    shutdown_pc,        \* position of shutdown_event
    \* history
    sm_returned         \* what get_session returned in the last step

sessionVars == <<sessions, sm_created, sm_open, sm_tasks, scheduler_running,
                 shutdown_pc, sm_returned>>

VARIABLES
    successful_methods, \* RedditFallbackChain.successful_methods[subreddit] of
                        \* the one subreddit: empty, or (method, timestamp)
    rd_now,             \* time.time() as the chain reads it
    rd_calls,           \* calls of fetch_reddit_feed so far
    rd_call             \* the call of fetch_reddit_feed that is running, or
                        \* the last one

redditVars == <<successful_methods, rd_now, rd_calls, rd_call>>

VARIABLES
    san_text,           \* the text given to sanitize_html_for_telegram
    san_pc,             \* idle, text, once, twice: how often it was sanitized
    san_once,           \* what sanitize_html_for_telegram(text) returned
    san_twice           \* what it returned for that result

sanVars == <<san_text, san_pc, san_once, san_twice>>

vars == <<pipeVars, cbVars, rlVars, fetchVars, tickVars, statsVars, alertVars,
          sessionVars, redditVars, sanVars>>

\* what the pipeline, the breaker and the limiter each leave alone
outsidePipe == <<cbVars, rlVars, fetchVars, tickVars, statsVars, alertVars,
                  sessionVars, redditVars, sanVars>>
outsideCB == <<pipeVars, rlVars, fetchVars, tickVars, statsVars, alertVars,
                sessionVars, redditVars, sanVars>>
outsideRL == <<pipeVars, cbVars, fetchVars, tickVars, statsVars, alertVars,
                sessionVars, redditVars, sanVars>>
outsideFetch == <<pipeVars, tickVars, stats_now, stats_calls, alert_calls,
                  sessionVars, redditVars, sanVars>>
outsideSession == <<pipeVars, rlVars, fetchVars, tickVars, statsVars, alertVars,
                    redditVars, sanVars>>
outsideReddit == <<pipeVars, cbVars, rlVars, fetchVars, tickVars, statsVars,
                   alertVars, sessionVars, sanVars>>
outsideSan == <<pipeVars, cbVars, rlVars, fetchVars, tickVars, statsVars,
                alertVars, sessionVars, redditVars>>
outsideTick == <<pipeVars, cbVars, rlVars, fetchVars, statsVars, alertVars,
                  sessionVars, redditVars, sanVars>>
outsideStats == <<pipeVars, cbVars, rlVars, fetchVars, tickVars, alertVars,
                   sessionVars, redditVars, sanVars>>
outsideAlert == <<pipeVars, rlVars, fetchVars, tickVars, statsVars,
                   sessionVars, redditVars, sanVars>>

(* --------------------------- pure helpers ------------------------------ *)
Item(i, d) == [id |-> i, pub_date |-> d]

Ids(items) == {items[k].id : k \in 1..Len(items)}

\* RSSItem.to_dict: pubDate is the isoformat string, or None
ToDict(it) == [id |-> it.id,
               pubDate |-> IF it.pub_date = NoDate THEN <<>> ELSE <<it.pub_date>>]

\* the cached dict back to an RSSItem: date_parser.parse(pubDate) when present
FromDict(d) == [id |-> d.id,
                pub_date |-> IF d.pubDate = <<>> THEN NoDate ELSE d.pubDate[1]]

\* the items of a feed as feed:{url} holds them, and back
ToDicts(items) == [k \in 1..Len(items) |-> ToDict(items[k])]

FromDicts(dicts) == [k \in 1..Len(dicts) |-> FromDict(dicts[k])]

\* the comparison made not strict
IsNewerOrSame(it, last_item_date) == it.pub_date >= last_item_date

\* item.pub_date > last_item_date, for an item that has a pub_date
IsNewer(it, last_item_date) == it.pub_date > last_item_date

\* a position-based delta: only the feed's first item is looked at
SelectNewFirstOnly(items, last_item_date) ==
    IF items # <<>> /\ items[1].pub_date # NoDate
       /\ items[1].pub_date > last_item_date
    THEN <<items[1]>> ELSE <<>>

\* the loop over items: keep the dated items newer than last_item_date
SelectNew(items, last_item_date) ==
    SelectSeq(items, LAMBDA it : it.pub_date # NoDate /\ IsNewer(it, last_item_date))

\* where list.sort(key=pub_date, reverse=True) puts one more item: after every
\* item whose date is not smaller (the sort is stable)
RECURSIVE InsertDesc(_, _)
InsertDesc(sorted, it) ==
    IF sorted = <<>> THEN <<it>>
    ELSE IF Head(sorted).pub_date >= it.pub_date
         THEN <<Head(sorted)>> \o InsertDesc(Tail(sorted), it)
         ELSE <<it>> \o sorted

RECURSIVE SortDesc(_)
SortDesc(items) ==
    IF items = <<>> THEN <<>>
    ELSE InsertDesc(SortDesc(SubSeq(items, 1, Len(items) - 1)), items[Len(items)])

EmptyResult == [items |-> <<>>, totalItemsCount |-> 0,
                lastItemIdToSave |-> NoId, firstItemId |-> NoId]

\* RSSService.get_new_items, after its fetch returned res
GetNewItems(res, last_item_id, last_item_date) ==
    IF ~res.success \/ res.items = <<>> THEN EmptyResult
    ELSE IF last_item_id = NoId
    THEN [items |-> <<>>, totalItemsCount |-> Len(res.items),
          lastItemIdToSave |-> res.items[1].id, firstItemId |-> res.items[1].id]
    ELSE IF last_item_date = NoDate
    THEN [items |-> <<res.items[1]>>, totalItemsCount |-> Len(res.items),
          lastItemIdToSave |-> NoId, firstItemId |-> res.items[1].id]
    ELSE [items |-> SortDesc(SelectNew(res.items, last_item_date)),
          totalItemsCount |-> Len(res.items),
          lastItemIdToSave |-> NoId, firstItemId |-> res.items[1].id]

\* how a fetch goes: the breaker denies it, or it is allowed and the network
\* answers with the feed ("ok") or every attempt fails ("fail")
FetchOutcomes == {"denied", "ok", "fail"}

\* feed:{url} holds a feed with items
CacheHit == cacheOn /\ cache # <<>>

\* _fetch_feed_from_url as check_feed sees it: nothing when the breaker denies,
\* else the cached feed when feed:{url} holds one, else what the network gave
FetchFeed(how) ==
    IF how = "denied" THEN [success |-> FALSE, items |-> <<>>]
    ELSE IF CacheHit THEN [success |-> TRUE, items |-> FromDicts(cache)]
    ELSE IF how = "ok" THEN [success |-> TRUE, items |-> remote]
    ELSE [success |-> FALSE, items |-> <<>>]

\* feed:{url} after that fetch: written only on a network success with items
CacheAfterFetch(how) ==
    IF cacheOn /\ cache = <<>> /\ how = "ok" /\ remote # <<>>
    THEN ToDicts(remote)
    ELSE cache

\* the fetch gave no feed
FetchFailed(how) == how = "denied" \/ (~CacheHit /\ how = "fail")

\* the branch that bumps last_item_id to the current first item left out
NewLastItemIdNoBump(res, last_item_id) ==
    IF res.items # <<>> THEN res.items[1].id ELSE last_item_id

\* check_feed, the branches that need no second fetch
NewLastItemId(res, last_item_id) ==
    IF res.items # <<>> THEN res.items[1].id
    ELSE IF res.firstItemId # NoId THEN res.firstItemId
    ELSE last_item_id

\* the date taken from the last new item instead of the first
LastNotifiedOfOldestNew(res, t) ==
    IF res.items = <<>> THEN NoDate
    ELSE IF res.items[Len(res.items)].pub_date # NoDate
         THEN res.items[Len(res.items)].pub_date
    ELSE t

LastNotifiedOfNew(res, t) ==
    IF res.items = <<>> THEN NoDate
    ELSE IF res.items[1].pub_date # NoDate THEN res.items[1].pub_date
    ELSE t

\* the baseline always set to the current time
BaselineDateNow(feed_data, t) == t

\* check_feed, first observation: the baseline date out of the second fetch
BaselineDate(feed_data, t) ==
    IF feed_data.success /\ feed_data.items # <<>>
    THEN IF feed_data.items[1].pub_date # NoDate
         THEN feed_data.items[1].pub_date
         ELSE t
    ELSE t

\* update_feed_last_check storing both arguments as given, a None included
UpdateFeedStoreArguments(row, last_item_id, last_notified_at, t) ==
    [row EXCEPT !.last_check = t,
                !.last_item_id = last_item_id,
                !.last_notified_at = last_notified_at]

\* FeedService.update_feed_last_check
UpdateFeedLastCheck(row, last_item_id, last_notified_at, t) ==
    [row EXCEPT !.last_check = t,
                !.last_item_id = IF last_item_id # NoId THEN last_item_id ELSE @,
                !.last_notified_at =
                    IF last_notified_at # NoDate THEN last_notified_at ELSE @]

\* FeedChecker._should_check_feed
ShouldCheckFeed(row, t) ==
    \/ row.last_check = NoDate
    \/ (t - row.last_check) * MinutesPerUnit >= row.check_interval_minutes

\* the notification loop without its max-age test
TooOldNever(row, it, t) == FALSE

\* the max-age test of the notification loop
TooOld(row, it, t) ==
    /\ row.max_age_minutes # 0
    /\ it.pub_date # NoDate
    /\ (t - it.pub_date) * MinutesPerUnit > row.max_age_minutes

\* the send_message calls of one round of the notification loop, without the
\* plain-text fallback
SendAttemptsNoFallback(outcome) ==
    <<[mode |-> "HTML", delivered |-> outcome = "html"]>>

\* the send_message calls of one round of the notification loop: parse_mode
\* "HTML" first, and parse_mode None when that raised or returned None
SendAttempts(outcome) ==
    IF outcome = "html"
    THEN <<[mode |-> "HTML", delivered |-> TRUE]>>
    ELSE <<[mode |-> "HTML", delivered |-> FALSE],
           [mode |-> "plain", delivered |-> outcome = "plain"]>>

\* message_sent at the end of the round
Delivered(tries) == \E k \in 1..Len(tries) : tries[k].delivered

\* the notification loop entered before the row is updated
PcAfterDecideSendFirst == "send"

\* where check_feed goes after it has decided new_last_item_id / last_notified
PcAfterDecide == "commit"

\* where check_feed goes after update_feed_last_check
PcAfterCommit(items) == IF items # <<>> THEN "send" ELSE "done"

(* ------------------------- the circuit breaker ------------------------- *)
\* dict.get(k, default), d[k] = v and del d[k] of a Python dict
Get(d, k, default) == IF k \in DOMAIN d THEN d[k] ELSE default

Put(d, k, v) == [x \in DOMAIN d \cup {k} |-> IF x = k THEN v ELSE d[x]]

Del(d, k) == [x \in DOMAIN d \ {k} |-> d[x]]

Min(a, b) == IF a <= b THEN a ELSE b

STATE_CLOSED == "closed"
STATE_OPEN == "open"
STATE_HALF_OPEN == "half_open"

\* the state of r's breaker
StateOf(st, r) == Get(st, r, STATE_CLOSED)

\* the timeout check of an open breaker, always answering that it expired
TimeoutExpiredAlways(feed_id, now) == TRUE

\* time.time() >= self.open_until.get(feed_id, 0)
TimeoutExpired(feed_id, now) == now >= Get(open_until, feed_id, 0)

\* what should_allow_request returns
ShouldAllow(feed_id, now) ==
    LET state == Get(states, feed_id, STATE_CLOSED)
    IN  CASE state = STATE_CLOSED -> TRUE
          [] state = STATE_OPEN -> TimeoutExpired(feed_id, now)
          [] state = STATE_HALF_OPEN -> TRUE
          [] OTHER -> FALSE

\* should_allow_request leaving the states dict alone
StatesAfterAllowUnchanged(feed_id, now) == states

\* the states dict after should_allow_request
StatesAfterAllow(feed_id, now) ==
    IF Get(states, feed_id, STATE_CLOSED) = STATE_OPEN /\ TimeoutExpired(feed_id, now)
    THEN Put(states, feed_id, STATE_HALF_OPEN)
    ELSE states

\* record_failure in half_open: the timeout of the new open period
HalfOpenTimeout(feed_id, now) ==
    LET current_timeout == Get(open_until, feed_id, now) - now
    IN  IF current_timeout > 0
        THEN Min(MaxTimeout, current_timeout * 2)
        ELSE InitialTimeout

\* record_failure opens the breaker on this call
OpensOnFailure(state, failures) ==
    state = STATE_HALF_OPEN \/ failures >= FailureThreshold

\* record_failure starts the circuit-open alert on this call: only the branch
\* that opens the breaker on the threshold does
AlertsOnFailure(state, failures) ==
    state # STATE_HALF_OPEN /\ failures >= FailureThreshold

CBInit ==
    /\ time = 0
    /\ advances = 0
    /\ states = <<>>
    /\ failure_counts = <<>>
    /\ open_until = <<>>
    /\ last_allow = [r \in Resources |-> <<>>]
    /\ streak = [r \in Resources |-> 0]
    /\ open_timeout = [r \in Resources |-> 0]
    /\ prev_timeout = [r \in Resources |-> 0]
    /\ probe_failed = [r \in Resources |-> FALSE]
    /\ alerted = {}

\* the clock moves by half the initial timeout or by all of it
ClockMoves ==
    /\ advances < MaxAdvances
    /\ \E d \in {InitialTimeout \div 2, InitialTimeout} : time' = time + d
    /\ advances' = advances + 1
    /\ alerted' = {}
    /\ UNCHANGED <<states, failure_counts, open_until, last_allow, streak,
                   open_timeout, prev_timeout, probe_failed>>

Advance ==
    /\ ClockMoves
    /\ UNCHANGED outsideCB

\* circuit_breaker.should_allow_request(feed_id)
CBShouldAllowRequest(feed_id) ==
    /\ states' = StatesAfterAllow(feed_id, time)
    /\ last_allow' = [last_allow EXCEPT ![feed_id] =
          <<[allowed |-> ShouldAllow(feed_id, time),
             streak |-> streak[feed_id],
             before |-> feed_id \in DOMAIN open_until /\ time < open_until[feed_id]]>>]
    /\ alerted' = {}
    /\ UNCHANGED <<failure_counts, open_until, streak, open_timeout,
                   prev_timeout, probe_failed>>

ShouldAllowRequest ==
    /\ \E feed_id \in Resources : CBShouldAllowRequest(feed_id)
    /\ UNCHANGED <<time, advances>>
    /\ UNCHANGED outsideCB

\* circuit_breaker.record_success(feed_id)
CBRecordSuccess(feed_id) ==
    /\ states' = Put(states, feed_id, STATE_CLOSED)
    /\ failure_counts' = Put(failure_counts, feed_id, 0)
    /\ open_until' = Del(open_until, feed_id)
    /\ streak' = [streak EXCEPT ![feed_id] = 0]
    /\ open_timeout' = [open_timeout EXCEPT ![feed_id] = 0]
    /\ prev_timeout' = [prev_timeout EXCEPT ![feed_id] = 0]
    /\ probe_failed' = [probe_failed EXCEPT ![feed_id] = FALSE]
    /\ alerted' = {}
    /\ UNCHANGED last_allow

RecordSuccess ==
    /\ \E feed_id \in Resources : CBRecordSuccess(feed_id)
    /\ UNCHANGED <<time, advances>>
    /\ UNCHANGED outsideCB

\* circuit_breaker.record_failure(feed_id); the alert is the task that calls
\* blocking_alert_service.check_circuit_breaker_state(state="open"), with the
\* bot and the admin chat configured
CBRecordFailure(feed_id) ==
    LET failures == Get(failure_counts, feed_id, 0) + 1
        state == Get(states, feed_id, STATE_CLOSED)
        new_timeout == IF state = STATE_HALF_OPEN
                       THEN HalfOpenTimeout(feed_id, time)
                       ELSE InitialTimeout
    IN  /\ failures <= MaxFailures
        /\ failure_counts' = Put(failure_counts, feed_id, failures)
        /\ streak' = [streak EXCEPT ![feed_id] = @ + 1]
        /\ IF OpensOnFailure(state, failures)
           THEN /\ open_until' = Put(open_until, feed_id, time + new_timeout)
                /\ states' = Put(states, feed_id, STATE_OPEN)
                /\ prev_timeout' = [prev_timeout EXCEPT ![feed_id] = open_timeout[feed_id]]
                /\ open_timeout' = [open_timeout EXCEPT ![feed_id] = new_timeout]
                /\ probe_failed' = [probe_failed EXCEPT ![feed_id] = (state = STATE_HALF_OPEN)]
           ELSE UNCHANGED <<open_until, states, prev_timeout, open_timeout,
                            probe_failed>>
        /\ alerted' = IF AlertsOnFailure(state, failures) THEN {feed_id} ELSE {}
        /\ UNCHANGED last_allow

RecordFailure ==
    /\ \E feed_id \in Resources : CBRecordFailure(feed_id)
    /\ UNCHANGED <<time, advances>>
    /\ UNCHANGED outsideCB

(* -------------------------- the rate limiter --------------------------- *)
Scaled(seconds) == seconds * DelayScale

Larger(a, b) == IF a >= b THEN a ELSE b

\* x * 1.5 and x * 0.9
Times15(x) == (x \div 2) * 3

Times09(x) == (x \div 10) * 9

\* self.domain_delays.get(domain, self.min_delay)
CurrentDelay(domain) == Get(domain_delays, domain, Scaled(MinDelay))

\* record_failure multiplying by 1.5 whatever the status
FailureProductFlat(current_delay, status_code, failures) == Times15(current_delay)

\* current_delay times the multiplier record_failure picks
FailureProduct(current_delay, status_code, failures) ==
    IF status_code = 429 THEN current_delay * 2
    ELSE IF status_code = 403 /\ failures >= 3 THEN current_delay * 3
    ELSE Times15(current_delay)

\* record_failure without the clamp
DelayAfterFailureUnclamped(current_delay, status_code, failures) ==
    FailureProduct(current_delay, status_code, failures)

DelayAfterFailure(current_delay, status_code, failures) ==
    Min(Scaled(MaxDelay), FailureProduct(current_delay, status_code, failures))

DelayAfterSuccess(current_delay) ==
    Larger(Scaled(MinDelay), Times09(current_delay))

\* the three draws of random.uniform(-0.2, 0.2) that are followed: both ends
\* and the middle
Jitters == {-1, 0, 1}

\* max(0, wait_time + jitter)
JitteredWait(wait_time, j) == Larger(0, wait_time + j * (wait_time \div 5))

\* the limiter is built while the clock reads more than max_delay (time.time()
\* counts from 1970)
RLInit ==
    /\ rl_now = Scaled(MaxDelay)
    /\ rl_calls = 0
    /\ domain_delays = <<>>
    /\ last_request_time = <<>>
    /\ rl_failure_counts = <<>>
    /\ wpc = [t \in Tasks |-> "out"]
    /\ wake = [t \in Tasks |-> 0]
    /\ wdomain = [t \in Tasks |-> "d1"]
    /\ wdelay = [t \in Tasks |-> 0]
    /\ rl_last = <<>>

\* rate_limiter.record_success(domain)
RLRecordSuccess(domain) ==
    /\ domain_delays' = Put(domain_delays, domain, DelayAfterSuccess(CurrentDelay(domain)))
    /\ rl_failure_counts' = Put(rl_failure_counts, domain, 0)
    /\ rl_last' = <<[op |-> "record_success", domain |-> domain, status |-> 200,
                     delay |-> 0]>>

\* rate_limiter.record_failure(domain, status_code)
RLRecordFailure(domain, status_code) ==
    LET failures == Get(rl_failure_counts, domain, 0) + 1
    IN  /\ rl_failure_counts' = Put(rl_failure_counts, domain, failures)
        /\ domain_delays' = Put(domain_delays, domain,
              DelayAfterFailure(CurrentDelay(domain), status_code, failures))
        /\ rl_last' = <<[op |-> "record_failure", domain |-> domain,
                         status |-> status_code, delay |-> 0]>>

LimiterSuccess ==
    /\ rl_calls < MaxRLCalls
    /\ rl_calls' = rl_calls + 1
    /\ \E domain \in Domains : RLRecordSuccess(domain)
    /\ UNCHANGED <<rl_now, last_request_time, wpc, wake, wdomain, wdelay>>
    /\ UNCHANGED outsideRL

LimiterFailure ==
    /\ rl_calls < MaxRLCalls
    /\ rl_calls' = rl_calls + 1
    /\ \E domain \in Domains, status_code \in StatusCodes :
          RLRecordFailure(domain, status_code)
    /\ UNCHANGED <<rl_now, last_request_time, wpc, wake, wdomain, wdelay>>
    /\ UNCHANGED outsideRL

\* a task calls wait_if_needed(domain): up to the await, or to the end when
\* there is nothing to wait for
RLWaitBegin(t, domain) ==
    LET current_delay == CurrentDelay(domain)
        last_time == Get(last_request_time, domain, 0)
        elapsed == rl_now - last_time
    IN  /\ wpc[t] = "out"
        /\ wdomain' = [wdomain EXCEPT ![t] = domain]
        /\ wdelay' = [wdelay EXCEPT ![t] = current_delay]
        /\ IF elapsed < current_delay
           THEN /\ \E j \in Jitters :
                     wake' = [wake EXCEPT ![t] =
                                rl_now + JitteredWait(current_delay - elapsed, j)]
                /\ wpc' = [wpc EXCEPT ![t] = "sleeping"]
                /\ rl_last' = <<>>
                /\ UNCHANGED last_request_time
           ELSE /\ last_request_time' = Put(last_request_time, domain, rl_now)
                /\ rl_last' = <<[op |-> "return", domain |-> domain,
                                 status |-> 0, delay |-> current_delay]>>
                /\ UNCHANGED <<wake, wpc>>

WaitBegin ==
    /\ rl_calls < MaxRLCalls
    /\ rl_calls' = rl_calls + 1
    /\ \E t \in Tasks, domain \in Domains : RLWaitBegin(t, domain)
    /\ UNCHANGED <<rl_now, domain_delays, rl_failure_counts>>
    /\ UNCHANGED outsideRL

\* the sleep of a task is over: self.last_request_time[domain] = time.time()
RLWaitEnd(t) ==
    /\ wpc[t] = "sleeping"
    /\ rl_now >= wake[t]
    /\ wpc' = [wpc EXCEPT ![t] = "out"]
    /\ last_request_time' = Put(last_request_time, wdomain[t], rl_now)
    /\ rl_last' = <<[op |-> "return", domain |-> wdomain[t],
                     status |-> 0, delay |-> wdelay[t]]>>

WaitEnd ==
    /\ \E t \in Tasks : RLWaitEnd(t)
    /\ UNCHANGED <<rl_now, rl_calls, domain_delays, rl_failure_counts, wake,
                   wdomain, wdelay>>
    /\ UNCHANGED outsideRL

\* the clock reaches the end of the next sleep
Sleep ==
    /\ \E t \in Tasks :
        /\ wpc[t] = "sleeping"
        /\ wake[t] > rl_now
        /\ \A o \in Tasks : (wpc[o] = "sleeping" /\ wake[o] > rl_now) => wake[t] <= wake[o]
        /\ rl_now' = wake[t]
    /\ rl_last' = <<>>
    /\ UNCHANGED <<rl_calls, domain_delays, last_request_time, rl_failure_counts,
                   wpc, wake, wdomain, wdelay>>
    /\ UNCHANGED outsideRL

\* one second passes between two calls
Elapse ==
    /\ rl_calls < MaxRLCalls
    /\ rl_calls' = rl_calls + 1
    /\ rl_now' = rl_now + Scaled(1)
    /\ rl_last' = <<>>
    /\ UNCHANGED <<domain_delays, last_request_time, rl_failure_counts, wpc,
                   wake, wdomain, wdelay>>
    /\ UNCHANGED outsideRL

(* ----------------------- the blocking statistics ----------------------- *)
\* BlockingStatsService over the BlockingStats table. A call reads its row,
\* changes it and commits without an await in between. The timestamps
\* last_success and last_failure, which only get_summary reports, are left
\* out of the row.

\* Optional arguments: None is <<>>, a value v is <<v>>
None == <<>>

\* get_or_create_stats: the row of a domain seen for the first time
NewStats(now) ==
    [total_requests |-> 0, successful_requests |-> 0, blocked_requests |-> 0,
     rate_limited_requests |-> 0, current_delay |-> Scaled(MinDelay),
     circuit_breaker_state |-> STATE_CLOSED, preferred_user_agent |-> "",
     updated_at |-> now]

GetOrCreateStats(rows, domain, now) == Get(rows, domain, NewStats(now))

\* record_request_success(domain, user_agent, delay)
StatsAfterSuccess(row, user_agent, delay, now) ==
    [row EXCEPT !.total_requests = @ + 1,
                !.successful_requests = @ + 1,
                !.updated_at = now,
                !.preferred_user_agent = IF user_agent # "" THEN user_agent ELSE @,
                !.current_delay = IF delay # None THEN delay[1] ELSE @]

\* the mutant counts a failure in its bucket only
StatsAfterFailureBucketOnly(row, status_code, delay, cb_state, now) ==
    [row EXCEPT !.blocked_requests = IF status_code = 403 THEN @ + 1 ELSE @,
                !.rate_limited_requests = IF status_code = 429 THEN @ + 1 ELSE @,
                !.updated_at = now]

\* record_request_failure(domain, status_code, delay, circuit_breaker_state)
StatsAfterFailure(row, status_code, delay, cb_state, now) ==
    [row EXCEPT !.total_requests = @ + 1,
                !.updated_at = now,
                !.blocked_requests = IF status_code = 403 THEN @ + 1 ELSE @,
                !.rate_limited_requests = IF status_code = 429 THEN @ + 1 ELSE @,
                !.current_delay = IF delay # None THEN delay[1] ELSE @,
                !.circuit_breaker_state = IF cb_state # "" THEN cb_state ELSE @]

\* get_success_rate(domain), rounded down to a whole percent
GetSuccessRate(rows, domain) ==
    IF domain \notin DOMAIN rows \/ rows[domain].total_requests = 0
    THEN 0
    ELSE (rows[domain].successful_requests * 100) \div rows[domain].total_requests

\* the mutant's WHERE clause also takes the rows at the cutoff
IsOldOrAtCutoff(row, now, days) == row.updated_at <= now - days

\* WHERE updated_at < utcnow() - timedelta(days=days)
IsOld(row, now, days) == row.updated_at < now - days

\* what reset_old_stats does to a row it selected
StatsAfterReset(row, now) ==
    [row EXCEPT !.total_requests = 0,
                !.successful_requests = 0,
                !.blocked_requests = 0,
                !.rate_limited_requests = 0,
                !.current_delay = Scaled(MinDelay),
                !.circuit_breaker_state = STATE_CLOSED,
                !.updated_at = now]

\* reset_old_stats(days)
ResetOldStats(rows, now, days) ==
    [domain \in DOMAIN rows |->
        IF IsOld(rows[domain], now, days)
        THEN StatsAfterReset(rows[domain], now)
        ELSE rows[domain]]

StatsInit ==
    /\ stats_rows = <<>>
    /\ stats_now = 0
    /\ stats_calls = 0
    /\ stats_last = ""

\* the calls, as the parts of a step that concern the table
StatsRecordSuccess(domain, user_agent, delay) ==
    /\ stats_rows' = Put(stats_rows, domain,
          StatsAfterSuccess(GetOrCreateStats(stats_rows, domain, stats_now),
                            user_agent, delay, stats_now))
    /\ stats_last' = "record_request_success"

StatsRecordFailure(domain, status_code, delay, cb_state) ==
    /\ stats_rows' = Put(stats_rows, domain,
          StatsAfterFailure(GetOrCreateStats(stats_rows, domain, stats_now),
                            status_code, delay, cb_state, stats_now))
    /\ stats_last' = "record_request_failure"

\* no call to the statistics in this step
StatsIdle ==
    /\ stats_last' = ""
    /\ UNCHANGED stats_rows

\* the delay and the breaker state a caller passes: the fetcher, the only
\* caller, always passes rate_limiter.get_current_delay(domain) and
\* circuit_breaker.get_state(url)
StatsDelays == {<<Scaled(MaxDelay)>>}
StatsBreakerStates == {STATE_OPEN}

RecordRequestSuccess ==
    /\ stats_calls < MaxStatsCalls
    /\ stats_calls' = stats_calls + 1
    /\ \E domain \in StatsDomains, user_agent \in UserAgents \cup {""},
          delay \in StatsDelays :
          StatsRecordSuccess(domain, user_agent, delay)
    /\ UNCHANGED <<stats_now, outsideStats>>

RecordRequestFailure ==
    /\ stats_calls < MaxStatsCalls
    /\ stats_calls' = stats_calls + 1
    /\ \E domain \in StatsDomains, status_code \in StatusCodes,
          delay \in StatsDelays, cb_state \in StatsBreakerStates :
          StatsRecordFailure(domain, status_code, delay, cb_state)
    /\ UNCHANGED <<stats_now, outsideStats>>

\* BlockingMonitor.cleanup_old_stats
CleanupOldStats ==
    /\ stats_calls < MaxStatsCalls
    /\ stats_calls' = stats_calls + 1
    /\ stats_rows' = ResetOldStats(stats_rows, stats_now, ResetDays)
    /\ stats_last' = "reset_old_stats"
    /\ UNCHANGED <<stats_now, outsideStats>>

\* days pass: one, or as many as the cleanup looks back
StatsElapse ==
    /\ \E d \in {1, ResetDays} :
          /\ stats_now + d <= MaxStatsDays
          /\ stats_now' = stats_now + d
    /\ stats_last' = ""
    /\ UNCHANGED <<stats_rows, stats_calls, outsideStats>>

(* ------------------------- the blocking alerts ------------------------- *)
\* BlockingAlertService as the fetcher calls it. Its clock is the breaker's.

\* the domains the fetcher requests
AlertDomains == StatsDomains

\* `if success_rate < 50.0:` and `if total_requests < 10: return`
LowSuccessRate == 50

MinAlertRequests == 10

\* the statuses of a response that is not ok
BlockStatuses == StatusCodes \ {0}

\* should_alert: last_alerted is None or (now - last_alerted) > alert_cooldown
ShouldAlert(last_alerted, now) ==
    last_alerted = None \/ now - last_alerted[1] > AlertCooldown

\* the `if consecutive_count >= 3:` of _handle_403_block
AlertsOnBlock(domain, count, now) ==
    /\ count >= 3
    /\ ShouldAlert(IF domain \in DOMAIN consecutive_block_alerted
                   THEN <<consecutive_block_alerted[domain]>> ELSE None, now)

AlertInit ==
    /\ consecutive_blocks = <<>>
    /\ first_block_alerted = {}
    /\ consecutive_block_alerted = <<>>
    /\ low_success_rate_alerted = <<>>
    /\ low_alerts = {}
    /\ alert_calls = 0
    /\ block_alerts = {}
    /\ blocked_run = [domain \in AlertDomains |-> 0]

\* the 403s in a row, counted up to three, after one more response
RunAfter(run, status) == IF status = 403 THEN Min(run + 1, 3) ELSE 0

\* check_and_alert_on_block(domain, status_code)
AlertCheckOnBlock(domain, status_code) ==
    IF status_code = 403
    THEN LET count == Get(consecutive_blocks, domain, 0) + 1
         IN  /\ consecutive_blocks' = Put(consecutive_blocks, domain, count)
             /\ first_block_alerted' = first_block_alerted \cup {domain}
             /\ IF AlertsOnBlock(domain, count, time)
                THEN /\ consecutive_block_alerted' =
                            Put(consecutive_block_alerted, domain, time)
                     /\ block_alerts' = {domain}
                ELSE /\ block_alerts' = {}
                     /\ UNCHANGED consecutive_block_alerted
    ELSE /\ block_alerts' = {}
         /\ UNCHANGED <<consecutive_blocks, first_block_alerted,
                        consecutive_block_alerted>>

\* the success rate of a statistics row in whole percent, rounded down, as
\* get_success_rate, get_domains_with_low_success_rate and the monitor job
\* compute it (a rate is below 50.0 exactly when its whole part is below 50)
RowSuccessRate(row) ==
    IF row.total_requests = 0
    THEN 0
    ELSE (row.successful_requests * 100) \div row.total_requests

\* the low-rate test without its `if total_requests < 10: return`
LowAlertDueAnyTotal(alerted_at, domain, success_rate, total_requests, now) ==
    /\ success_rate < LowSuccessRate
    /\ ShouldAlert(IF domain \in DOMAIN alerted_at
                   THEN <<alerted_at[domain]>> ELSE None, now)

\* check_and_alert_low_success_rate reaches `if should_alert:`
LowAlertDue(alerted_at, domain, success_rate, total_requests, now) ==
    /\ total_requests >= MinAlertRequests
    /\ success_rate < LowSuccessRate
    /\ ShouldAlert(IF domain \in DOMAIN alerted_at
                   THEN <<alerted_at[domain]>> ELSE None, now)

\* what the alert of a domain says, and when the domain was last alerted
\* for before it
LowAlert(domain, success_rate, total_requests) ==
    [domain |-> domain, success_rate |-> success_rate,
     total_requests |-> total_requests,
     last_alerted |-> IF domain \in DOMAIN low_success_rate_alerted
                      THEN <<low_success_rate_alerted[domain]>> ELSE None]

\* no call of check_and_alert_low_success_rate in this step
LowIdle ==
    /\ low_alerts' = {}
    /\ UNCHANGED low_success_rate_alerted

\* check_and_alert_low_success_rate(domain, success_rate, total_requests)
AlertCheckLowSuccessRate(domain, success_rate, total_requests) ==
    IF LowAlertDue(low_success_rate_alerted, domain, success_rate,
                   total_requests, time)
    THEN /\ low_success_rate_alerted' = Put(low_success_rate_alerted, domain, time)
         /\ low_alerts' = {LowAlert(domain, success_rate, total_requests)}
    ELSE LowIdle

\* get_domains_with_low_success_rate(threshold=50.0)
LowSuccessDomains(rows) ==
    {domain \in DOMAIN rows :
        /\ rows[domain].total_requests > 0
        /\ RowSuccessRate(rows[domain]) < LowSuccessRate}

\* check_success_rates over the rows of the table: one call of
\* check_and_alert_low_success_rate for each row selected, each on the entry
\* of its own domain; without a bot or an admin chat the job makes no call
AlertCheckSuccessRates(rows, bot_ok) ==
    LET due == {domain \in LowSuccessDomains(rows) :
                   /\ bot_ok
                   /\ LowAlertDue(low_success_rate_alerted, domain,
                                  RowSuccessRate(rows[domain]),
                                  rows[domain].total_requests, time)}
    IN  /\ low_success_rate_alerted' =
               [domain \in DOMAIN low_success_rate_alerted \cup due |->
                   IF domain \in due THEN time
                   ELSE low_success_rate_alerted[domain]]
        /\ low_alerts' = {LowAlert(domain, RowSuccessRate(rows[domain]),
                                   rows[domain].total_requests) : domain \in due}

\* reset_consecutive_blocks(domain)
AlertResetConsecutive(domain) ==
    /\ consecutive_blocks' = IF domain \in DOMAIN consecutive_blocks
                             THEN Put(consecutive_blocks, domain, 0)
                             ELSE consecutive_blocks
    /\ block_alerts' = {}
    /\ LowIdle
    /\ UNCHANGED <<first_block_alerted, consecutive_block_alerted>>

\* no call to the alert service in this step
AlertIdle ==
    /\ block_alerts' = {}
    /\ LowIdle
    /\ UNCHANGED <<consecutive_blocks, first_block_alerted,
                   consecutive_block_alerted>>

\* the rows a caller can have read from the BlockingStats table, as their
\* two counters
StatsSamples ==
    {[successful_requests |-> c[1], total_requests |-> c[2]] :
        c \in {<<0, 0>>, <<0, MinAlertRequests - 1>>, <<4, MinAlertRequests>>,
               <<5, MinAlertRequests>>}}

\* a response that is not ok: the `if not response.ok:` branch of the fetcher
\* calls check_and_alert_on_block with its status
BlockedResponse ==
    /\ alert_calls < MaxAlertCalls
    /\ alert_calls' = alert_calls + 1
    /\ \E domain \in AlertDomains, status_code \in BlockStatuses :
          /\ AlertCheckOnBlock(domain, status_code)
          /\ \E stats \in StatsSamples :
                AlertCheckLowSuccessRate(domain, RowSuccessRate(stats),
                                         stats.total_requests)
          /\ blocked_run' = [blocked_run EXCEPT ![domain] = RunAfter(@, status_code)]
    /\ UNCHANGED <<cbVars, outsideAlert>>

\* a response that parses: the fetcher calls reset_consecutive_blocks
ParsedResponse ==
    /\ alert_calls < MaxAlertCalls
    /\ alert_calls' = alert_calls + 1
    /\ \E domain \in AlertDomains :
          /\ AlertResetConsecutive(domain)
          /\ blocked_run' = [blocked_run EXCEPT ![domain] = RunAfter(@, 200)]
    /\ UNCHANGED <<cbVars, outsideAlert>>

\* a timeout, or a body the parser rejects: the two except clauses of the
\* fetcher make no call to the alert service
NoResponse ==
    /\ alert_calls < MaxAlertCalls
    /\ alert_calls' = alert_calls + 1
    /\ \E domain \in AlertDomains :
          /\ AlertIdle
          /\ blocked_run' = [blocked_run EXCEPT ![domain] = RunAfter(@, 0)]
    /\ UNCHANGED <<cbVars, outsideAlert>>

\* the hourly job: blocking_monitor.check_success_rates
CheckSuccessRates ==
    /\ alert_calls < MaxAlertCalls
    /\ alert_calls' = alert_calls + 1
    /\ \E rows \in [AlertDomains -> StatsSamples], bot_ok \in BOOLEAN :
          AlertCheckSuccessRates(rows, bot_ok)
    /\ block_alerts' = {}
    /\ UNCHANGED <<consecutive_blocks, first_block_alerted,
                   consecutive_block_alerted, blocked_run>>
    /\ UNCHANGED <<cbVars, outsideAlert>>

\* time passes between two requests
AlertAdvance ==
    /\ ClockMoves
    /\ AlertIdle
    /\ UNCHANGED <<alert_calls, blocked_run, outsideAlert>>

(* ------------------- the session manager and shutdown ------------------- *)
\* SessionManager.__init__: session_ttl, in seconds
SessionTtl == 3600

\* the number of sessions the manager creates
MaxSessions == 3

\* the domains get_session is asked for, and the tasks that call the manager
SessionDomains == {"d1", "d2"}

SessionTasks == {"t1", "t2"}

\* a task that is not inside the manager and holds no session
IdleTask == [pc |-> "idle", domain |-> "", session |-> 0, pos |-> 0, size |-> 0]

\* the position of the entry of a domain in self.sessions, 0 when there is none
SessionIndex(dict, domain) ==
    IF \E k \in 1..Len(dict) : dict[k].domain = domain
    THEN CHOOSE k \in 1..Len(dict) : dict[k].domain = domain
    ELSE 0

\* the sessions self.sessions holds
StoredSessions(dict) == {dict[k].session : k \in 1..Len(dict)}

\* the TTL test of the mutant also passes a session whose age is the TTL
IsFreshOrAtTtl(created_at, now) == now - created_at <= SessionTtl

\* `if time.time() - created_at < self.session_ttl:`
IsFresh(created_at, now) == now - created_at < SessionTtl

\* self.sessions[domain] = (session, time.time()): a new key goes to the end
\* of the dict, a key that is there keeps its place
StoreSession(dict, domain, session, now) ==
    LET k == SessionIndex(dict, domain)
        entry == [domain |-> domain, session |-> session, created_at |-> now]
    IN  IF k = 0 THEN Append(dict, entry) ELSE [dict EXCEPT ![k] = entry]

SessionInit ==
    /\ sessions = <<>>
    /\ sm_created = 0
    /\ sm_open = {}
    /\ sm_tasks = [task \in SessionTasks |-> IdleTask]
    /\ sm_returned = <<>>
    /\ scheduler_running = TRUE
    /\ shutdown_pc = "running"

\* the rest of get_session from `# Create new session` on: the session is
\* created, stored and returned, and the caller sends its request on it
CreateAndReturn(task, domain, closed) ==
    LET session == sm_created + 1
    IN  /\ sm_created < MaxSessions
        /\ sm_created' = session
        /\ sm_open' = (sm_open \ closed) \cup {session}
        /\ sessions' = StoreSession(sessions, domain, session, time)
        /\ sm_tasks' = [sm_tasks EXCEPT ![task] =
                           [IdleTask EXCEPT !.pc = "using", !.domain = domain,
                                            !.session = session]]
        /\ sm_returned' = <<[task |-> task, domain |-> domain,
                             session |-> session, age |-> 0, created |-> TRUE,
                             closed |-> closed]>>

\* session_manager.get_session(domain) up to its return or, for a stored
\* session past the TTL, up to `await session.close()`
GetSession ==
    /\ shutdown_pc # "stopped"
    /\ \E task \in SessionTasks, domain \in SessionDomains :
        LET k == SessionIndex(sessions, domain)
        IN  /\ sm_tasks[task].pc = "idle"
            /\ IF k = 0
               THEN CreateAndReturn(task, domain, {})
               ELSE IF IsFresh(sessions[k].created_at, time)
               THEN /\ sm_tasks' = [sm_tasks EXCEPT ![task] =
                           [IdleTask EXCEPT !.pc = "using", !.domain = domain,
                                            !.session = sessions[k].session]]
                    /\ sm_returned' = <<[task |-> task, domain |-> domain,
                             session |-> sessions[k].session,
                             age |-> time - sessions[k].created_at,
                             created |-> FALSE, closed |-> {}]>>
                    /\ UNCHANGED <<sessions, sm_created, sm_open>>
               ELSE /\ sm_open' = sm_open \ {sessions[k].session}
                    /\ sm_tasks' = [sm_tasks EXCEPT ![task] =
                           [IdleTask EXCEPT !.pc = "closing", !.domain = domain,
                                            !.session = sessions[k].session]]
                    /\ sm_returned' = <<>>
                    /\ UNCHANGED <<sessions, sm_created>>
    /\ UNCHANGED <<scheduler_running, shutdown_pc, cbVars, outsideSession>>

\* get_session after `await session.close()`
GetSessionResume ==
    /\ shutdown_pc # "stopped"
    /\ \E task \in SessionTasks :
          /\ sm_tasks[task].pc = "closing"
          /\ CreateAndReturn(task, sm_tasks[task].domain, {sm_tasks[task].session})
    /\ UNCHANGED <<scheduler_running, shutdown_pc, cbVars, outsideSession>>

\* the request of the caller is over: `async with session.get(...)` is left
ReleaseSession ==
    /\ shutdown_pc # "stopped"
    /\ \E task \in SessionTasks :
          /\ sm_tasks[task].pc = "using"
          /\ sm_tasks' = [sm_tasks EXCEPT ![task] = IdleTask]
    /\ sm_returned' = <<>>
    /\ UNCHANGED <<sessions, sm_created, sm_open, scheduler_running,
                   shutdown_pc, cbVars, outsideSession>>

\* close_all() up to its first `await session.close()`, or to its end when
\* the dict is empty
CloseAllBegin ==
    /\ shutdown_pc # "stopped"
    /\ \E task \in SessionTasks :
          /\ sm_tasks[task].pc = "idle"
          /\ IF sessions = <<>>
             THEN UNCHANGED <<sm_tasks, sm_open>>
             ELSE /\ sm_open' = sm_open \ {sessions[1].session}
                  /\ sm_tasks' = [sm_tasks EXCEPT ![task] =
                         [IdleTask EXCEPT !.pc = "close_all", !.pos = 1,
                                          !.size = Len(sessions)]]
    /\ sm_returned' = <<>>
    /\ UNCHANGED <<sessions, sm_created, scheduler_running, shutdown_pc, cbVars,
                   outsideSession>>

\* close_all() after an `await session.close()`: the iterator over
\* self.sessions.values() raises RuntimeError when the size of the dict has
\* changed, yields the next value as it is now, or is exhausted, and then
\* self.sessions.clear() runs
CloseAllResume ==
    /\ shutdown_pc # "stopped"
    /\ \E task \in SessionTasks :
        LET this == sm_tasks[task]
        IN  /\ this.pc = "close_all"
            /\ IF Len(sessions) # this.size
               THEN /\ sm_tasks' = [sm_tasks EXCEPT ![task] = IdleTask]
                    /\ UNCHANGED <<sessions, sm_open>>
               ELSE IF this.pos < this.size
               THEN /\ sm_open' = sm_open \ {sessions[this.pos + 1].session}
                    /\ sm_tasks' = [sm_tasks EXCEPT ![task].pos = @ + 1]
                    /\ UNCHANGED sessions
               ELSE /\ sessions' = <<>>
                    /\ sm_tasks' = [sm_tasks EXCEPT ![task] = IdleTask]
                    /\ UNCHANGED sm_open
    /\ sm_returned' = <<>>
    /\ UNCHANGED <<sm_created, scheduler_running, shutdown_pc, cbVars,
                   outsideSession>>

\* time passes
SessionAdvance ==
    /\ shutdown_pc # "stopped"
    /\ ClockMoves
    /\ sm_returned' = <<>>
    /\ UNCHANGED <<sessions, sm_created, sm_open, sm_tasks, scheduler_running,
                   shutdown_pc, outsideSession>>

\* shutdown_event up to `await bot_service.close()`: the keep-alive service
\* is stopped
ShutdownBegin ==
    /\ shutdown_pc = "running"
    /\ shutdown_pc' = "bot_close"
    /\ sm_returned' = <<>>
    /\ UNCHANGED <<sessions, sm_created, sm_open, sm_tasks, scheduler_running,
                   cbVars, outsideSession>>

\* shutdown_event from scheduler.stop() to `await cache_service.close()`
ShutdownStopScheduler ==
    /\ shutdown_pc = "bot_close"
    /\ shutdown_pc' = "cache_close"
    /\ scheduler_running' = FALSE
    /\ sm_returned' = <<>>
    /\ UNCHANGED <<sessions, sm_created, sm_open, sm_tasks, cbVars,
                   outsideSession>>

\* shutdown_event to its end: database.close(), and the event loop ends
ShutdownEnd ==
    /\ shutdown_pc = "cache_close"
    /\ shutdown_pc' = "stopped"
    /\ sm_returned' = <<>>
    /\ UNCHANGED <<sessions, sm_created, sm_open, sm_tasks, scheduler_running,
                   cbVars, outsideSession>>

(* ----------------------- the Reddit fallback chain ---------------------- *)
\* RedditFallbackChain.__init__: method_cache_ttl, in seconds
MethodCacheTtl == 86400

\* calls of fetch_reddit_feed, and moves of its clock
MaxRedditCalls == 3

MaxRedditAdvances == 3

\* the `methods` list of fetch_reddit_feed
Methods == <<"rss", "json", "old_rss">>

\* no call of fetch_reddit_feed is running; `tried` keeps the methods the last
\* call awaited with what each returned, `learned` the entry of the subreddit
\* the call found, `began` the time it read
NoRedditCall ==
    [pc |-> "idle", i |-> 0, tried |-> <<>>, learned |-> <<>>, began |-> 0,
     result |-> "none"]

\* the mutant's test also takes an entry that is 24 hours old
IsLearnedOrAtTtl(entry, now) == now - entry.timestamp <= MethodCacheTtl

\* `if time.time() - timestamp < self.method_cache_ttl:`
IsLearned(entry, now) == now - entry.timestamp < MethodCacheTtl

\* `if subreddit in self.successful_methods:` and the test of the timestamp
TriesLearnedFirst(entries, now) ==
    entries # <<>> /\ IsLearned(entries[1], now)

RedditInit ==
    /\ successful_methods = <<>>
    /\ rd_now = 0
    /\ rd_calls = 0
    /\ rd_call = NoRedditCall

\* fetch_reddit_feed(subreddit, rss_service) up to its first await: the
\* learned method, or the first method of the list
RedditBegin ==
    /\ rd_call.pc = "idle"
    /\ rd_calls < MaxRedditCalls
    /\ rd_calls' = rd_calls + 1
    /\ rd_call' = [NoRedditCall EXCEPT
           !.pc = IF TriesLearnedFirst(successful_methods, rd_now)
                  THEN "learned" ELSE "loop",
           !.i = IF TriesLearnedFirst(successful_methods, rd_now) THEN 0 ELSE 1,
           !.learned = successful_methods,
           !.began = rd_now]
    /\ UNCHANGED <<successful_methods, rd_now, outsideReddit>>

\* `result = await self._try_method(method, ...)` returns: success is
\* returned to the caller, a failure deletes the entry and enters the loop
RedditLearnedReturns ==
    /\ rd_call.pc = "learned"
    /\ \E ok \in BOOLEAN :
        LET attempt_made == [method |-> successful_methods[1].method, ok |-> ok]
        IN  IF ok
            THEN /\ rd_call' = [rd_call EXCEPT
                        !.pc = "idle", !.result = "success",
                        !.tried = Append(@, attempt_made)]
                 /\ UNCHANGED successful_methods
            ELSE /\ rd_call' = [rd_call EXCEPT
                        !.pc = "loop", !.i = 1,
                        !.tried = Append(@, attempt_made)]
                 /\ successful_methods' = <<>>
    /\ UNCHANGED <<rd_now, rd_calls, outsideReddit>>

\* `result = await method_func(...)` of the loop returns: a success is
\* recorded and returned, a failure goes on to the next method, and after
\* the last one the call returns "All methods failed"
RedditMethodReturns ==
    /\ rd_call.pc = "loop"
    /\ \E ok \in BOOLEAN :
        LET attempt_made == [method |-> Methods[rd_call.i], ok |-> ok]
        IN  IF ok
            THEN /\ rd_call' = [rd_call EXCEPT
                        !.pc = "idle", !.result = "success",
                        !.tried = Append(@, attempt_made)]
                 /\ successful_methods' =
                        <<[method |-> Methods[rd_call.i], timestamp |-> rd_now]>>
            ELSE /\ rd_call' = [rd_call EXCEPT
                        !.pc = IF rd_call.i < Len(Methods) THEN "loop" ELSE "idle",
                        !.i = IF rd_call.i < Len(Methods) THEN @ + 1 ELSE @,
                        !.result = IF rd_call.i < Len(Methods) THEN @ ELSE "failed",
                        !.tried = Append(@, attempt_made)]
                 /\ UNCHANGED successful_methods
    /\ UNCHANGED <<rd_now, rd_calls, outsideReddit>>

\* time passes, by half the TTL of a learned method
RedditAdvance ==
    /\ rd_now < MaxRedditAdvances * (MethodCacheTtl \div 2)
    /\ rd_now' = rd_now + MethodCacheTtl \div 2
    /\ UNCHANGED <<successful_methods, rd_calls, rd_call, outsideReddit>>

(* --------------------------- the HTML sanitizer ------------------------- *)
\* A text is a sequence of tokens: a piece of character data, a tag or a
\* comment. Character data is "x" (letters), "&" or "<"; its depth tells how
\* often it is escaped: "&" is & at depth 0, &amp; at depth 1, &amp;amp; at
\* depth 2, and "<" is &lt; at depth 1 and &amp;lt; at depth 2. An opening
\* tag has no href ("none"), an href without special characters ("plain"),
\* or an href with one ampersand ("amp"), escaped `depth` times.
MaxTokens == 3

TextToken(ch, n) == [kind |-> "text", name |-> ch, href |-> "", depth |-> n]

OpenTag(name, href, n) == [kind |-> "open", name |-> name, href |-> href, depth |-> n]

CloseTag(name) == [kind |-> "close", name |-> name, href |-> "", depth |-> 0]

Comment == [kind |-> "comment", name |-> "", href |-> "", depth |-> 0]

\* the tokens of an input
SanTokens ==
    {TextToken("x", 0), TextToken("&", 0), TextToken("&", 1), Comment,
     OpenTag("b", "none", 0), CloseTag("b"), OpenTag("i", "none", 0),
     CloseTag("i"), OpenTag("a", "amp", 0), OpenTag("a", "plain", 0),
     CloseTag("a"), OpenTag("br", "none", 0), OpenTag("abbr", "none", 0),
     CloseTag("abbr"), OpenTag("p", "none", 0), OpenTag("strong", "none", 0),
     CloseTag("strong")}

SanInputs == UNION {[1..n -> SanTokens] : n \in 0..MaxTokens}

IsTag(token) == token.kind \in {"open", "close"}

\* the names, of those the inputs use, that the regular expression
\* `<tag[^>]*>` (or `</tag[^>]*>`, or the `</?(?:b|i|u|s|code|pre|a)` of
\* step 6) matches for a tag: the expression asks for the letters of the tag
\* and not for the end of the name
NamesMatching ==
    [b |-> {"b", "br"}, i |-> {"i"}, u |-> {"u"}, s |-> {"s", "strong"},
     code |-> {"code"}, pre |-> {"pre"}, a |-> {"a", "abbr"}]

\* the `for tag in [...]` list of step 5
AttributeTags == <<"b", "i", "u", "s", "code", "pre">>

\* Telegram's tags
TelegramTags == {"b", "i", "u", "s", "code", "pre", "a"}

\* a text without the tokens at the positions of `gone`
RECURSIVE Without(_, _)
Without(text, gone) ==
    IF text = <<>>
    THEN <<>>
    ELSE LET rest == Without(Tail(text), {k - 1 : k \in gone \ {1}})
         IN  IF 1 \in gone THEN rest ELSE <<Head(text)>> \o rest

\* step 1: re.sub(r"<!--.*?-->", "", text)
RemoveComments(text) ==
    Without(text, {k \in 1..Len(text) : text[k].kind = "comment"})

\* step 3: </?strong>, </?em>, </?ins>, </?strike>, </?del> become b, i, u, s,
\* s; the expressions match a tag without attributes only
EquivalentTag(token) ==
    IF (token.kind = "open" /\ token.href = "none") \/ token.kind = "close"
    THEN [token EXCEPT !.name =
             CASE @ = "strong" -> "b"
               [] @ = "em" -> "i"
               [] @ = "ins" -> "u"
               [] @ \in {"strike", "del"} -> "s"
               [] OTHER -> @]
    ELSE token

\* step 4, clean_a_tag on a match of `<a[^>]*>`: the href is kept with its
\* &, < and > escaped, every other attribute is dropped
CleanATag(token) ==
    IF token.kind = "open" /\ token.name \in NamesMatching["a"]
    THEN [token EXCEPT !.name = "a",
                       !.depth = IF token.href = "amp" THEN @ + 1 ELSE @]
    ELSE token

\* _remove_orphaned_closing_tags(text, 'a'): the positions of the </a> that
\* have no <a ...> open before them
RECURSIVE OrphanedClosing(_, _, _)
OrphanedClosing(text, k, open_count) ==
    IF k > Len(text)
    THEN {}
    ELSE IF text[k].kind = "open" /\ text[k].name = "a"
    THEN OrphanedClosing(text, k + 1, open_count + 1)
    ELSE IF text[k].kind = "close" /\ text[k].name = "a"
    THEN IF open_count > 0
         THEN OrphanedClosing(text, k + 1, open_count - 1)
         ELSE {k} \cup OrphanedClosing(text, k + 1, open_count)
    ELSE OrphanedClosing(text, k + 1, open_count)

RemoveOrphanedClosingTags(text) == Without(text, OrphanedClosing(text, 1, 0))

\* step 5, one pass of the loop: `<tag[^>]*>` becomes <tag> and
\* `</tag[^>]*>` becomes </tag>
StripAttributes(token, tag) ==
    IF IsTag(token) /\ token.name \in NamesMatching[tag]
    THEN [token EXCEPT !.name = tag, !.href = IF token.kind = "open" THEN "none" ELSE @,
                       !.depth = 0]
    ELSE token

RECURSIVE StripAll(_, _)
StripAll(token, k) ==
    IF k > Len(AttributeTags)
    THEN token
    ELSE StripAll(StripAttributes(token, AttributeTags[k]), k + 1)

\* step 6, protect_allowed_tag: a tag is kept when
\* re.match(r"</?(?:b|i|u|s|code|pre|a)", tag) matches it
IsProtected(token) ==
    \E tag \in TelegramTags : token.name \in NamesMatching[tag]

RemoveUnsupported(text) ==
    Without(text, {k \in 1..Len(text) : IsTag(text[k]) /\ ~IsProtected(text[k])})

\* step 7 on character data: html.unescape takes one level of escaping off
\* (a bare & stays), html.escape puts one on (letters stay)
EscapeText(token) ==
    IF token.kind = "text" /\ token.name # "x"
    THEN [token EXCEPT !.depth = (IF @ > 0 THEN @ - 1 ELSE @) + 1]
    ELSE token

\* _balance_html_tags: paired_tags and self_closing_tags
PairedTags == {"b", "i", "u", "s", "code", "pre"}

SelfClosingTags == {"a"}

\* the index of the last name of the stack that is `name`, 0 when none is
LastOpen(stack, name) ==
    IF \E k \in 1..Len(stack) : stack[k] = name
    THEN CHOOSE k \in 1..Len(stack) :
            stack[k] = name /\ \A j \in (k + 1)..Len(stack) : stack[j] # name
    ELSE 0

\* the closing tags of the names of a stack, the last name first
RECURSIVE ClosingTags(_)
ClosingTags(stack) ==
    IF stack = <<>>
    THEN <<>>
    ELSE <<CloseTag(stack[Len(stack)])>> \o ClosingTags(SubSeq(stack, 1, Len(stack) - 1))

\* _balance_html_tags from the token at position k on, with tag_stack
RECURSIVE Balance(_, _, _)
Balance(text, k, stack) ==
    IF k > Len(text)
    THEN ClosingTags(stack)
    ELSE LET token == text[k]
         IN  IF ~IsTag(token) \/ token.name \notin PairedTags \cup SelfClosingTags
             THEN <<token>> \o Balance(text, k + 1, stack)
             ELSE IF token.name \in SelfClosingTags
             THEN <<token>> \o Balance(text, k + 1, stack)
             ELSE IF token.kind = "close"
             THEN LET at == LastOpen(stack, token.name)
                  IN  IF at = 0
                      THEN Balance(text, k + 1, stack)
                      ELSE ClosingTags(SubSeq(stack, at + 1, Len(stack)))
                           \o <<token>>
                           \o Balance(text, k + 1, SubSeq(stack, 1, at - 1))
             ELSE <<token>> \o Balance(text, k + 1, Append(stack, token.name))

BalanceHtmlTags(text) == Balance(text, 1, <<>>)

\* sanitize_html_for_telegram(text), for a text without script and style
\* elements and without white space
SanitizeHtmlForTelegram(text) ==
    LET step1 == RemoveComments(text)
        step3 == [k \in 1..Len(step1) |-> EquivalentTag(step1[k])]
        step4 == [k \in 1..Len(step3) |-> CleanATag(step3[k])]
        step45 == RemoveOrphanedClosingTags(step4)
        step5 == [k \in 1..Len(step45) |-> StripAll(step45[k], 1)]
        step6 == RemoveUnsupported(step5)
        step7 == [k \in 1..Len(step6) |-> EscapeText(step6[k])]
    IN  BalanceHtmlTags(step7)

\* no text has been given to the sanitizer
SanIdle ==
    /\ san_text = <<>>
    /\ san_pc = "idle"
    /\ san_once = <<>>
    /\ san_twice = <<>>

\* a caller holds a text to sanitize
SanInit ==
    /\ san_text \in SanInputs
    /\ san_pc = "text"
    /\ san_once = <<>>
    /\ san_twice = <<>>

\* sanitize_html_for_telegram(text)
Sanitize ==
    /\ san_pc = "text"
    /\ san_once' = SanitizeHtmlForTelegram(san_text)
    /\ san_pc' = "once"
    /\ UNCHANGED <<san_text, san_twice, outsideSan>>

\* sanitize_html_for_telegram of what the first call returned
SanitizeAgain ==
    /\ san_pc = "once"
    /\ san_twice' = SanitizeHtmlForTelegram(san_once)
    /\ san_pc' = "twice"
    /\ UNCHANGED <<san_text, san_once, outsideSan>>

(* ------------------------------- Init ---------------------------------- *)
\* nothing fetched yet, nothing cached
FetchInit ==
    /\ fpc = "idle"
    /\ attempt = 0
    /\ fetches = 0
    /\ feed_entry = <<>>
    /\ meta_entry = FALSE
    /\ f_result = "none"
    /\ last_error = ""
    /\ db_up = TRUE
    /\ domain_preferences = [success |-> 0, failure |-> 0]
    /\ prev_get = <<>>

\* what the loop body of check_all_feeds does with a feed: the feed is not
\* due ("skip"); check_feed returns success ("ok"); check_feed catches an
\* exception and returns success False ("failed"); the loop body raises
\* before check_feed is called, in _should_check_feed ("raised_early"), or
\* after it returned ("raised")
FeedKinds == {"skip", "ok", "failed", "raised_early", "raised"}

\* the lists get_all_enabled_feeds can return
FeedLists == UNION {[1..n -> FeedKinds] : n \in 0..MaxTickFeeds}

\* no tick is running
TickInit ==
    /\ tick_feeds = <<>>
    /\ tick_i = 0
    /\ tick_checked = {}
    /\ tick_stats = [checked |-> 0, skipped |-> 0, errors |-> 0]

NoFetch == [success |-> FALSE, items |-> <<>>]

PipeInit ==
    /\ utcnow = 1
    /\ remote = <<>>
    /\ cacheOn \in BOOLEAN
    /\ cache = <<>>
    /\ feed \in [last_item_id : {NoId}, last_notified_at : {NoDate},
                 last_seen_at : {NoDate}, last_check : {NoDate},
                 check_interval_minutes : {CheckIntervalMinutes},
                 max_age_minutes : MaxAges,
                 enabled : {TRUE}, failures : {0}]
    /\ pc = "idle"
    /\ snap = feed
    /\ fetched = NoFetch
    /\ result = EmptyResult
    /\ new_last_item_id = NoId
    /\ last_notified = NoDate
    /\ pending = <<>>
    /\ baseFeed = NoFetch
    /\ committed = FALSE
    /\ attempted = 0
    /\ sends = <<>>
    /\ sentNow = {}
    /\ lost = {}
    /\ baselineIds = {}
    /\ notified = {}
    /\ dirty = FALSE
    /\ stable = FALSE

Init ==
    /\ PipeInit
    /\ CBInit
    /\ RLInit
    /\ FetchInit
    /\ TickInit
    /\ StatsInit
    /\ AlertInit
    /\ SessionInit
    /\ RedditInit
    /\ SanIdle

(* --------------------------- environment ------------------------------- *)
\* time passes by one unit of the clock, which is one check interval: a check
\* takes less than that, and the 5 minutes a feed:{url} entry lives are over
Tick ==
    /\ UNCHANGED outsidePipe
    /\ pc = "idle"
    /\ utcnow < MaxNow
    /\ utcnow' = utcnow + 1
    /\ cache' = <<>>
    /\ UNCHANGED <<remote, cacheOn, feed, pc, snap, fetched, result,
                   new_last_item_id, last_notified, pending, baseFeed, committed,
                   attempted, sends, sentNow, lost, baselineIds,
                   notified, dirty, stable>>

\* the source publishes one more item, undated or dated now or one unit ago, at
\* the front of the feed (a chronological source) or at its end (a source that
\* ranks by popularity)
\* (the remote is read only by the two fetches, so a change while check_feed is
\* past them is the same change made when it is idle again)
Publish ==
    /\ UNCHANGED outsidePipe
    /\ pc \in {"idle", "baseline"}
    /\ Len(remote) < MaxItems
    /\ \E d \in {NoDate} \cup ({utcnow - 1, utcnow} \ {NoDate}),
          p \in {1, Len(remote) + 1} :
          remote' = SubSeq(remote, 1, p - 1) \o <<Item(Len(remote) + 1, d)>>
                    \o SubSeq(remote, p, Len(remote))
    /\ dirty' = TRUE
    /\ UNCHANGED <<utcnow, cacheOn, cache, feed, pc, snap, fetched, result,
                   new_last_item_id, last_notified, pending, baseFeed, committed,
                   attempted, sends, sentNow, lost, baselineIds,
                   notified, stable>>

\* the TTL of feed:{url} runs out
ExpireCache ==
    /\ UNCHANGED outsidePipe
    /\ pc \in {"idle", "baseline"}
    /\ cache # <<>>
    /\ cache' = <<>>
    /\ UNCHANGED <<utcnow, remote, cacheOn, feed, pc, snap, fetched, result,
                   new_last_item_id, last_notified, pending, baseFeed, committed,
                   attempted, sends, sentNow, lost, baselineIds,
                   notified, dirty, stable>>

(* ---------------------------- check_feed ------------------------------- *)
\* the tick takes the feed when it is due; check_feed calls get_new_items and,
\* unless this is the first observation, decides what to store
CallGetNewItems ==
    /\ UNCHANGED outsidePipe
    /\ pc = "idle"
    /\ ShouldCheckFeed(feed, utcnow)
    /\ \E how \in FetchOutcomes :
        LET last_item_date == IF feed.last_notified_at # NoDate
                              THEN feed.last_notified_at ELSE feed.last_seen_at
            res == FetchFeed(how)
            r == GetNewItems(res, feed.last_item_id, last_item_date)
            failed == FetchFailed(how)
        IN  /\ snap' = feed
            /\ fetched' = res
            /\ result' = r
            /\ cache' = CacheAfterFetch(how)
            /\ pending' = r.items
            /\ stable' = (feed.last_check # NoDate /\ ~dirty /\ ~failed)
            /\ dirty' = failed
            /\ IF r.lastItemIdToSave # NoId
               THEN /\ pc' = "baseline"
                    /\ new_last_item_id' = r.lastItemIdToSave
                    /\ last_notified' = NoDate
                    /\ baselineIds' = Ids(res.items)
               ELSE /\ pc' = PcAfterDecide
                    /\ new_last_item_id' = NewLastItemId(r, feed.last_item_id)
                    /\ last_notified' = LastNotifiedOfNew(r, utcnow)
                    /\ UNCHANGED baselineIds
    /\ UNCHANGED <<utcnow, remote, cacheOn, feed, notified, baseFeed, committed,
                   attempted, sends, sentNow, lost>>

\* first observation: the second fetch, whose first item dates the baseline
BaselineFetch ==
    /\ UNCHANGED outsidePipe
    /\ pc = "baseline"
    /\ \E how \in FetchOutcomes :
        LET feed_data == FetchFeed(how)
        IN  /\ baseFeed' = feed_data
            /\ cache' = CacheAfterFetch(how)
            /\ last_notified' = BaselineDate(feed_data, utcnow)
            /\ dirty' = (dirty \/ FetchFailed(how))
    /\ pc' = PcAfterDecide
    /\ UNCHANGED <<utcnow, remote, cacheOn, feed, snap, fetched, result,
                   new_last_item_id, pending, committed, attempted, sends, sentNow,
                   lost, baselineIds, notified, stable>>

\* await feed_service.update_feed_last_check(...)
Commit ==
    /\ UNCHANGED outsidePipe
    /\ pc = "commit"
    /\ feed' = UpdateFeedLastCheck(feed, new_last_item_id, last_notified, utcnow)
    /\ committed' = TRUE
    /\ pc' = PcAfterCommit(pending)
    /\ UNCHANGED <<utcnow, remote, cacheOn, cache, snap, fetched, result,
                   new_last_item_id, last_notified, pending, baseFeed, attempted, sends,
                   sentNow, lost, baselineIds, notified,
                   dirty, stable>>

\* one round of the notification loop: the age filter, the HTML send and the
\* plain-text fallback ("html": the first send worked, "plain": only the
\* fallback did, "none": both failed)
SendItem ==
    /\ UNCHANGED outsidePipe
    /\ pc = "send"
    /\ pending # <<>>
    /\ LET item == Head(pending)
       IN  IF TooOld(snap, item, utcnow)
           THEN /\ lost' = lost \cup {item.id}
                /\ UNCHANGED <<attempted, sends, sentNow, notified>>
           ELSE \E outcome \in {"html", "plain", "none"} :
                /\ attempted' = attempted + 1
                /\ sends' = SendAttempts(outcome)
                /\ IF Delivered(SendAttempts(outcome))
                   THEN /\ sentNow' = sentNow \cup {item.id}
                        /\ notified' = notified \cup {item.id}
                        /\ UNCHANGED lost
                   ELSE /\ lost' = lost \cup {item.id}
                        /\ UNCHANGED <<sentNow, notified>>
    /\ pending' = Tail(pending)
    /\ pc' = IF Tail(pending) = <<>> THEN "done" ELSE "send"
    /\ UNCHANGED <<utcnow, remote, cacheOn, cache, feed, snap, fetched, result,
                   new_last_item_id, last_notified, baseFeed, committed,
                   baselineIds, dirty, stable>>

\* check_feed returns its summary; check_all_feeds sleeps and the tick ends.
\* The locals of the check are gone (the history of the check is cleared).
Return ==
    /\ UNCHANGED outsidePipe
    /\ pc = "done"
    /\ pc' = "idle"
    /\ snap' = feed
    /\ fetched' = NoFetch
    /\ result' = EmptyResult
    /\ new_last_item_id' = NoId
    /\ last_notified' = NoDate
    /\ baseFeed' = NoFetch
    /\ committed' = FALSE
    /\ attempted' = 0
    /\ sends' = <<>>
    /\ sentNow' = {}
    /\ stable' = FALSE
    /\ UNCHANGED <<utcnow, remote, cacheOn, cache, feed, pending, baselineIds,
                   notified, lost, dirty>>

Next ==
    \/ Tick
    \/ Publish
    \/ ExpireCache
    \/ CallGetNewItems
    \/ BaselineFetch
    \/ Commit
    \/ SendItem
    \/ Return

Spec == Init /\ [][Next]_vars

\* the breaker on its own, next to a pipeline that stays idle
InitCB ==
    /\ PipeInit
    /\ cacheOn = FALSE
    /\ feed.max_age_minutes = 0
    /\ CBInit
    /\ RLInit
    /\ FetchInit
    /\ TickInit
    /\ StatsInit
    /\ AlertInit
    /\ SessionInit
    /\ RedditInit
    /\ SanIdle

NextCB ==
    \/ Advance
    \/ ShouldAllowRequest
    \/ RecordSuccess
    \/ RecordFailure

SpecCB == InitCB /\ [][NextCB]_vars

\* the rate limiter on its own, called by two tasks
InitRL == InitCB

NextRL ==
    \/ LimiterSuccess
    \/ LimiterFailure
    \/ WaitBegin
    \/ WaitEnd
    \/ Sleep
    \/ Elapse

SpecRL == InitRL /\ [][NextRL]_vars

(* ----------------------------- the fetcher ----------------------------- *)
\* RSSService._fetch_feed_from_url(url), called by one task for one URL, with
\* the breaker and the limiter it uses. The call is split at its awaits: the
\* sleep of wait_if_needed, each GET with the handling of its response, and
\* the backoff sleep between two attempts. The breaker's clock stands still:
\* the sleeps of MaxFetches calls are shorter than its initial timeout.

\* what a GET can come back with: a status below 400 whose body parses to n
\* items, with or without an ETag or Last-Modified header; a body the parser
\* rejects; a status of 400 or more; a timeout; and, for a request that
\* carried validators, a 304, whose body (empty on the wire) the parser
\* either rejects or reads as a feed without entries
Responses(validators) ==
    [kind : {"parsed"}, n : EntryCounts, etag : BOOLEAN, status : {200}]
    \cup [kind : {"bozo", "timeout"}, n : {0}, etag : {FALSE}, status : {0}]
    \cup [kind : {"status"}, n : {0}, etag : {FALSE}, status : FetchStatuses]
    \cup IF validators
         THEN [kind : {"not_modified", "not_modified_bozo"}, n : {0},
               etag : BOOLEAN, status : {304}]
         ELSE {}

IsNotModified(response) == response.status = 304

\* the cached feed has items: `cached_dict` is there and its items list is
\* not empty
HasItems(entry) == entry # <<>> /\ entry[1] > 0

\* the 304 branch: the cached feed is returned when it has items
ReturnsCached(response, entry) == IsNotModified(response) /\ HasItems(entry)

\* the 304 branch deletes feed:{url} and feed_meta:{url} when the cached
\* value is there and has no items; a missing value only logs a warning
DeletesOn304(response, entry) ==
    IsNotModified(response) /\ entry # <<>> /\ ~HasItems(entry)

\* the response raises inside the try block: `not response.ok`, parsed.bozo
\* or asyncio.TimeoutError
Raises(response) == response.kind \in {"status", "bozo", "timeout", "not_modified_bozo"}

\* `if items:` cache_service.set(f"feed:{url}", ...); the mutant writes always
FeedEntryAfterParseAlways(entry, n) == <<n>>

FeedEntryAfterParse(entry, n) == IF n > 0 THEN <<n>> ELSE entry

\* `if etag or last_modified:` cache_service.set(f"feed_meta:{url}", ...)
MetaEntryAfterParse(meta, etag) == meta \/ etag

\* min(base_delay * 2 ** (attempt - 1), max_delay) / 1000, in seconds
BackoffSeconds(a) == Min(BaseDelay * 2 ^ (a - 1), MaxBackoff) \div 1000

\* the exception the handling of a response raises inside the try block, ""
\* when it raises none: asyncio.TimeoutError, Exception("HTTP ...") or
\* Exception("Feed parsing error ...")
ErrorOf(response) ==
    CASE response.kind = "timeout" -> "timeout"
      [] response.kind = "status" -> "http"
      [] response.kind \in {"bozo", "not_modified_bozo"} -> "parse"
      [] OTHER -> ""

\* the mutant has no `except Exception` clause
HandlerTimeoutOnly(error) == IF error = "timeout" THEN "TimeoutError" ELSE ""

\* the except clause of the try block that catches the error, "" when none does
Handler(error) == IF error = "timeout" THEN "TimeoutError" ELSE "Exception"

\* the record of a GET
GetEvent(response, entry) ==
    [at |-> rl_now,
     uncached |-> IsNotModified(response) /\ ~HasItems(entry),
     error |-> ErrorOf(response)]

\* cache_service.get: None when Redis cannot be reached
CacheGet(entry, cache_up) == IF cache_up THEN entry ELSE <<>>

\* the User-Agent user_agent_pool.get_for_domain returns
FetchUserAgent == "ua1"

\* UserAgentPool.record_success and record_failure, on the counters of the
\* domain and User-Agent of the call
UARecordSuccess(prefs) == [prefs EXCEPT !.success = @ + 1]

UARecordFailure(prefs) == [prefs EXCEPT !.failure = @ + 1]

\* the calls of user_agent_pool.record_failure a failed attempt makes: the
\* `not response.ok` branch makes one and the except clause its raise lands
\* in makes another; a timeout or a rejected body makes one
UARecordFailures(prefs, response) ==
    IF response.kind = "status"
    THEN UARecordFailure(UARecordFailure(prefs))
    ELSE UARecordFailure(prefs)

\* rate_limiter.record_failure(domain, response.status) of the `not
\* response.ok` branch, followed by rate_limiter.record_failure(domain, 0) of
\* the `except Exception` the raise lands in
RLRecordFailureTwice(domain, status_code) ==
    LET failures == Get(rl_failure_counts, domain, 0) + 1
        first == DelayAfterFailure(CurrentDelay(domain), status_code, failures)
    IN  /\ rl_failure_counts' = Put(rl_failure_counts, domain, failures + 1)
        /\ domain_delays' = Put(domain_delays, domain,
              DelayAfterFailure(first, 0, failures + 1))
        /\ rl_last' = <<[op |-> "record_failure", domain |-> domain,
                         status |-> 0, delay |-> 0]>>

\* the row after the record_request_failure of the `not response.ok` branch,
\* made between the two record_failure calls of the limiter and before the
\* one of the breaker
StatsAfterStatus(row, domain, status_code) ==
    StatsAfterFailure(row, status_code,
        <<DelayAfterFailure(CurrentDelay(domain), status_code,
                            Get(rl_failure_counts, domain, 0) + 1)>>,
        StateOf(states, FetchUrl), stats_now)

\* the database part of a failed attempt: the `not response.ok` branch
\* records the status and asks for the alerts, then the except clause the
\* raise lands in records a failure of status 0; a timeout or a rejected body
\* is recorded by its except clause only. A write that raises is logged.
StatsOnFailure(domain, response, db_ok) ==
    IF ~db_ok
    THEN StatsIdle /\ AlertIdle
    ELSE LET row == GetOrCreateStats(stats_rows, domain, stats_now)
             first == IF response.kind = "status"
                      THEN StatsAfterStatus(row, domain, response.status)
                      ELSE row
         IN  /\ stats_rows' = Put(stats_rows, domain,
                    StatsAfterFailure(first, 0, <<domain_delays'[domain]>>,
                                      StateOf(states', FetchUrl), stats_now))
             /\ stats_last' = "record_request_failure"
             /\ IF response.kind = "status"
                THEN /\ AlertCheckOnBlock(domain, response.status)
                     /\ AlertCheckLowSuccessRate(domain, RowSuccessRate(first),
                                                 first.total_requests)
                ELSE AlertIdle

\* the database part of a parsed response: record_request_success, then
\* reset_consecutive_blocks, in one try block
StatsOnSuccess(domain, db_ok) ==
    IF ~db_ok
    THEN StatsIdle /\ AlertIdle
    ELSE /\ StatsRecordSuccess(domain, FetchUserAgent, <<domain_delays'[domain]>>)
         /\ AlertResetConsecutive(domain)

\* no call to the breaker in this step
CBIdle ==
    /\ alerted' = {}
    /\ UNCHANGED <<states, failure_counts, open_until, last_allow, streak,
                   open_timeout, prev_timeout, probe_failed>>

\* no call to the limiter in this step
RLIdle ==
    /\ rl_last' = <<>>
    /\ UNCHANGED <<domain_delays, last_request_time, rl_failure_counts, wpc,
                   wake, wdomain, wdelay>>

\* no request answered in this step
NoOutcome ==
    /\ StatsIdle
    /\ AlertIdle
    /\ UNCHANGED blocked_run

\* the call up to the first await of the network path: the breaker, the
\* cache, and wait_if_needed up to its sleep
FetchBegin ==
    /\ fpc = "idle"
    /\ fetches < MaxFetches
    /\ fetches' = fetches + 1
    /\ CBShouldAllowRequest(FetchUrl)
    /\ \E cache_up \in BOOLEAN :
        LET cached_dict == CacheGet(feed_entry, cache_up)
        IN  IF ~ShouldAllow(FetchUrl, time)
            THEN /\ f_result' = "circuit_open"
                 /\ RLIdle
                 /\ UNCHANGED <<fpc, attempt, feed_entry, meta_entry, db_up>>
            ELSE IF HasItems(cached_dict)
            THEN /\ f_result' = "cached"
                 /\ RLIdle
                 /\ UNCHANGED <<fpc, attempt, feed_entry, meta_entry, db_up>>
            ELSE /\ f_result' = "none"
                 /\ db_up' \in BOOLEAN
                 /\ IF cached_dict # <<>>
                    THEN feed_entry' = <<>> /\ meta_entry' = FALSE
                    ELSE UNCHANGED <<feed_entry, meta_entry>>
                 /\ RLWaitBegin(FetchTask, FetchDomain)
                 /\ fpc' = IF wpc'[FetchTask] = "sleeping" THEN "wait" ELSE "get"
                 /\ attempt' = IF wpc'[FetchTask] = "sleeping" THEN 0 ELSE 1
                 /\ UNCHANGED <<domain_delays, rl_failure_counts>>
    /\ last_error' = ""
    /\ NoOutcome
    /\ UNCHANGED <<prev_get, domain_preferences, time, advances, rl_now,
                   rl_calls, outsideFetch>>

\* the sleep of wait_if_needed is over: the retry loop begins
FetchWaitEnd ==
    /\ fpc = "wait"
    /\ RLWaitEnd(FetchTask)
    /\ fpc' = "get"
    /\ attempt' = 1
    /\ alerted' = {}
    /\ NoOutcome
    /\ UNCHANGED <<fetches, feed_entry, meta_entry, f_result, last_error, db_up,
                   domain_preferences, prev_get>>
    /\ UNCHANGED <<time, advances, states, failure_counts, open_until,
                   last_allow, streak, open_timeout, prev_timeout, probe_failed>>
    /\ UNCHANGED <<rl_now, rl_calls, domain_delays, rl_failure_counts, wake,
                   wdomain, wdelay, outsideFetch>>

\* one pass of the retry loop: the GET is sent, with the validators of
\* feed_meta:{url} when there are some, and its response is handled. Redis
\* is reachable for the whole pass or not at all, the database for the whole
\* call or not at all.
Attempt ==
    /\ fpc = "get"
    /\ \E cache_up \in BOOLEAN :
       \E response \in Responses(meta_entry /\ cache_up) :
        LET cached_for_304 == CacheGet(feed_entry, cache_up)
            deletes == DeletesOn304(response, cached_for_304)
        IN
        /\ prev_get' = <<GetEvent(response, cached_for_304)>>
        /\ blocked_run' = [blocked_run EXCEPT ![FetchDomain] = RunAfter(@, response.status)]
        /\ IF ReturnsCached(response, cached_for_304)
           THEN /\ f_result' = "not_modified"
                /\ fpc' = "idle"
                /\ last_error' = ""
                /\ CBIdle
                /\ RLIdle
                /\ StatsIdle
                /\ AlertIdle
                /\ UNCHANGED <<feed_entry, meta_entry, domain_preferences>>
           ELSE IF Raises(response) /\ Handler(ErrorOf(response)) = ""
           THEN /\ f_result' = "raised"
                /\ fpc' = "idle"
                /\ CBIdle
                /\ RLIdle
                /\ StatsIdle
                /\ AlertIdle
                /\ UNCHANGED <<feed_entry, meta_entry, last_error,
                               domain_preferences>>
           ELSE IF Raises(response)
           THEN /\ last_error' = ErrorOf(response)
                /\ IF response.kind = "status"
                   THEN RLRecordFailureTwice(FetchDomain, response.status)
                   ELSE RLRecordFailure(FetchDomain, 0)
                /\ domain_preferences' = UARecordFailures(domain_preferences, response)
                /\ CBRecordFailure(FetchUrl)
                /\ StatsOnFailure(FetchDomain, response, db_up)
                /\ IF deletes
                   THEN feed_entry' = <<>> /\ meta_entry' = FALSE
                   ELSE UNCHANGED <<feed_entry, meta_entry>>
                /\ fpc' = IF attempt < MaxRetries THEN "backoff" ELSE "idle"
                /\ f_result' = IF attempt < MaxRetries THEN "none" ELSE "failed"
                /\ UNCHANGED <<last_request_time, wpc, wake, wdomain, wdelay>>
           ELSE /\ feed_entry' = IF cache_up
                                 THEN FeedEntryAfterParse(
                                         IF deletes THEN <<>> ELSE feed_entry,
                                         response.n)
                                 ELSE feed_entry
                /\ meta_entry' = IF cache_up
                                 THEN MetaEntryAfterParse(
                                         IF deletes THEN FALSE ELSE meta_entry,
                                         response.etag)
                                 ELSE meta_entry
                /\ RLRecordSuccess(FetchDomain)
                /\ domain_preferences' = UARecordSuccess(domain_preferences)
                /\ CBRecordSuccess(FetchUrl)
                /\ StatsOnSuccess(FetchDomain, db_up)
                /\ fpc' = "idle"
                /\ f_result' = IF response.n > 0 THEN "ok" ELSE "ok_empty"
                /\ last_error' = ""
                /\ UNCHANGED <<last_request_time, wpc, wake, wdomain, wdelay>>
    /\ UNCHANGED <<attempt, fetches, db_up, time, advances, rl_now, rl_calls,
                   outsideFetch>>

\* asyncio.sleep(delay / 1000) between two attempts
Backoff ==
    /\ fpc = "backoff"
    /\ rl_now' = rl_now + Scaled(BackoffSeconds(attempt))
    /\ attempt' = attempt + 1
    /\ fpc' = "get"
    /\ CBIdle
    /\ RLIdle
    /\ NoOutcome
    /\ UNCHANGED <<fetches, feed_entry, meta_entry, f_result, last_error, db_up,
                   domain_preferences, prev_get>>
    /\ UNCHANGED <<time, advances, rl_calls, outsideFetch>>

\* the cache loses feed:{url}: its 300 seconds are over, or it was evicted
DropFeedEntry ==
    /\ fpc = "idle"
    /\ feed_entry # <<>>
    /\ feed_entry' = <<>>
    /\ CBIdle
    /\ RLIdle
    /\ NoOutcome
    /\ UNCHANGED <<fpc, attempt, fetches, meta_entry, f_result, last_error,
                   db_up, domain_preferences, prev_get>>
    /\ UNCHANGED <<time, advances, rl_now, rl_calls, outsideFetch>>

\* the cache loses feed_meta:{url}
DropMetaEntry ==
    /\ fpc = "idle"
    /\ meta_entry
    /\ meta_entry' = FALSE
    /\ CBIdle
    /\ RLIdle
    /\ NoOutcome
    /\ UNCHANGED <<fpc, attempt, fetches, feed_entry, f_result, last_error,
                   db_up, domain_preferences, prev_get>>
    /\ UNCHANGED <<time, advances, rl_now, rl_calls, outsideFetch>>

InitFetch == InitCB

NextFetch ==
    \/ FetchBegin
    \/ FetchWaitEnd
    \/ Sleep
    \/ Attempt
    \/ Backoff
    \/ DropFeedEntry
    \/ DropMetaEntry

SpecFetch == InitFetch /\ [][NextFetch]_vars

TypeOK ==
    /\ utcnow \in 1..MaxNow
    /\ Len(remote) <= MaxItems
    /\ pc \in {"idle", "baseline", "commit", "send", "done"}

(* ------------------------ properties of Spec --------------------------- *)
Range(s) == {s[k] : k \in 1..Len(s)}

Max(S) == CHOOSE x \in S : \A y \in S : y <= x

\* get_new_items has returned in the current check
Returned == pc \in {"commit", "send", "done"}

\* ... from its date comparison: both markers were present, the fetch worked
DeltaCall ==
    /\ Returned
    /\ snap.last_item_id # NoId
    /\ snap.last_notified_at # NoDate
    /\ fetched.success

\* the check that sets the baseline has been through update_feed_last_check
BaselineChecked ==
    /\ committed
    /\ snap.last_item_id = NoId
    /\ fetched.success
    /\ fetched.items # <<>>

C2_BaselineFromFirstFetch ==
    BaselineChecked =>
        /\ attempted = 0 /\ sentNow = {} /\ result.items = <<>>
        /\ feed.last_item_id = fetched.items[1].id
        /\ feed.last_notified_at =
              IF fetched.items[1].pub_date # NoDate
              THEN fetched.items[1].pub_date ELSE utcnow

\* C2 amended: last_notified_at is the pub_date of the first item of the feed
\* that check_feed's second fetch returned, or the current time when that
\* fetch failed, returned no item, or the item has no pub_date.
C2_BaselineFromSecondFetch ==
    BaselineChecked =>
        /\ attempted = 0 /\ sentNow = {} /\ result.items = <<>>
        /\ feed.last_item_id = fetched.items[1].id
        /\ feed.last_notified_at =
              IF baseFeed.success /\ baseFeed.items # <<>>
                 /\ baseFeed.items[1].pub_date # NoDate
              THEN baseFeed.items[1].pub_date ELSE utcnow

\* a baseline dated by the feed's first item, at a date that is not now
C2_Witness ==
    /\ BaselineChecked
    /\ pc = "done"
    /\ baseFeed.success
    /\ baseFeed.items # <<>>
    /\ baseFeed.items[1].pub_date # NoDate
    /\ baseFeed.items[1].pub_date # utcnow
    /\ feed.last_notified_at = baseFeed.items[1].pub_date

\* C3: no item that was in the feed at the first observation is ever
\* notified by a later check.
C3_BaselineSuppressesHistory == notified \cap baselineIds = {}

\* C4: a check that follows another one with no change of the remote feed and
\* no failed fetch since that one began sends nothing.
C4_SecondRunSendsNothing == stable => (attempted = 0 /\ sentNow = {})

\* the new items of the current check that were delivered
SentItems == {it \in Range(result.items) : it.id \in sentNow}

NoNewButFirstDiffers ==
    /\ committed
    /\ snap.last_item_id # NoId
    /\ fetched.success
    /\ fetched.items # <<>>
    /\ result.items = <<>>
    /\ fetched.items[1].id # snap.last_item_id

\* C7: when a check of a feed that has a stored last_item_id finds no new
\* items and the feed's first item id differs from the stored one,
\* last_item_id becomes that id and last_notified_at stays as it was.
C7_BumpFirstItemOnly ==
    NoNewButFirstDiffers =>
        /\ feed.last_item_id = fetched.items[1].id
        /\ feed.last_notified_at = snap.last_notified_at

C7_Witness == NoNewButFirstDiffers /\ pc = "done"

\* a check past the baseline has run to its end on a fetched feed
LaterCheckDone ==
    /\ pc = "done"
    /\ snap.last_item_id # NoId
    /\ snap.last_notified_at # NoDate
    /\ fetched.success

\* C8 as claimed, at the end of a later check: every dated item of the
\* fetched feed that was not there at the baseline has been notified, unless
\* its send failed or the age filter dropped it.
C8_EveryLaterItemNotified ==
    LaterCheckDone =>
        \A it \in Range(fetched.items) :
            (it.id \notin baselineIds /\ it.pub_date # NoDate /\ it.id \notin lost)
                => it.id \in notified

\* C8 amended: the check notifies exactly the fetched items whose pub_date is
\* strictly greater than the last_notified_at it started with, unless the
\* send failed or the age filter dropped the item.
C8_NewerItemsNotified ==
    LaterCheckDone =>
        \A it \in Range(fetched.items) :
            /\ (it.pub_date # NoDate /\ it.pub_date > snap.last_notified_at
                    /\ it.id \notin lost)
                  => it.id \in sentNow
            /\ it.id \in sentNow
                  => (it.pub_date # NoDate /\ it.pub_date > snap.last_notified_at)

\* a later check delivered an item that does not lead the feed
C8_Witness ==
    /\ LaterCheckDone
    /\ Len(fetched.items) >= 2
    /\ \E k \in 2..Len(fetched.items) : fetched.items[k].id \in sentNow

(* ----------------------- properties of SpecCB -------------------------- *)
\* the last should_allow_request(r) was made after at least failure_threshold
\* failures in a row and before open_until(r) had elapsed
AskedWhileOpen(r) ==
    /\ last_allow[r] # <<>>
    /\ last_allow[r][1].streak >= FailureThreshold
    /\ last_allow[r][1].before

\* C9: for every resource, once at least failure_threshold failures in a row
\* have been recorded since it was closed, open_until(r) exists, and a
\* should_allow_request(r) made before open_until(r) has elapsed returns false.
C9_DeniedWhileOpen ==
    \A r \in Resources :
        /\ streak[r] >= FailureThreshold => r \in DOMAIN open_until
        /\ AskedWhileOpen(r) => ~last_allow[r][1].allowed

C9_Witness ==
    \E r \in Resources : AskedWhileOpen(r) /\ ~last_allow[r][1].allowed

\* C10: a failure recorded while the resource is half-open opens it again
\* with a timeout of min(max_timeout, twice the previous timeout).
C10_ProbeFailureDoubles ==
    \A r \in Resources :
        probe_failed[r] => open_timeout[r] = Min(MaxTimeout, 2 * prev_timeout[r])

\* this step is a should_allow_request(r) made on an open breaker whose
\* open_until has been reached
ProbeGranted(r) ==
    /\ last_allow'[r] # last_allow[r]
    /\ StateOf(states, r) = STATE_OPEN
    /\ time >= Get(open_until, r, 0)

\* this step is a record_success(r) on a half-open breaker
ProbeSucceeded(r) ==
    /\ StateOf(states, r) = STATE_HALF_OPEN
    /\ streak[r] > 0
    /\ streak'[r] = 0

\* this step is a should_allow_request that changed r's state
AllowChangedState(r) ==
    /\ StateOf(states', r) # StateOf(states, r)
    /\ failure_counts' = failure_counts
    /\ open_until' = open_until

\* C11: a should_allow_request(r) on an open breaker at a time >= open_until(r)
\* returns true and moves r to half_open; a record_success(r) on the half-open
\* breaker moves r to closed with failure_count 0 and no open_until entry;
\* should_allow_request changes the state of a breaker in no other case.
C11_ProbeThenClose ==
    [][\A r \in Resources :
        /\ ProbeGranted(r) =>
              /\ last_allow'[r][1].allowed
              /\ StateOf(states', r) = STATE_HALF_OPEN
        /\ ProbeSucceeded(r) =>
              /\ StateOf(states', r) = STATE_CLOSED
              /\ r \in DOMAIN failure_counts' /\ failure_counts'[r] = 0
              /\ r \notin DOMAIN open_until'
        /\ AllowChangedState(r) =>
              /\ StateOf(states, r) = STATE_OPEN
              /\ time >= Get(open_until, r, 0)
              /\ StateOf(states', r) = STATE_HALF_OPEN]_vars

\* r was opened, its probe was granted after open_until, and a success has
\* closed it
C11_Witness ==
    \E r \in Resources :
        /\ last_allow[r] # <<>>
        /\ last_allow[r][1].streak >= FailureThreshold
        /\ last_allow[r][1].allowed
        /\ r \in DOMAIN states /\ states[r] = STATE_CLOSED
        /\ r \in DOMAIN failure_counts /\ failure_counts[r] = 0
        /\ streak[r] = 0
        /\ time >= InitialTimeout

\* r is open because it reached the failure threshold, and less than the alert
\* cooldown has passed since it opened
OpenedWithinCooldown(r) ==
    /\ StateOf(states, r) = STATE_OPEN
    /\ ~probe_failed[r]
    /\ r \in DOMAIN open_until
    /\ time < (open_until[r] - open_timeout[r]) + AlertCooldown

\* C13: when r goes from closed to open on the failure threshold one
\* circuit-open alert is emitted, and while r is open no further one is
\* emitted within the alert cooldown, whatever failures are recorded.
C13_OneAlertPerCooldown ==
    [][\A r \in Resources :
        /\ (StateOf(states, r) = STATE_CLOSED /\ StateOf(states', r) = STATE_OPEN)
              => r \in alerted'
        /\ OpenedWithinCooldown(r) => r \notin alerted']_vars

\* C14: every step that takes r into open, from closed on the threshold or
\* from half_open on a failed probe, emits a circuit-open alert.
C14_EveryOpeningAlerts ==
    [][\A r \in Resources :
        (StateOf(states, r) # STATE_OPEN /\ StateOf(states', r) = STATE_OPEN)
            => r \in alerted']_vars

(* ----------------------- properties of SpecRL -------------------------- *)
\* C15: for every domain, after any sequence of record_success and
\* record_failure calls with any status codes, min_delay <= current_delay <=
\* max_delay.
C15_DelayWithinBounds ==
    \A d \in Domains :
        /\ Scaled(MinDelay) <= CurrentDelay(d)
        /\ CurrentDelay(d) <= Scaled(MaxDelay)

\* a failure has taken the delay of a domain to max_delay
C15_Witness ==
    \E d \in Domains :
        /\ rl_last # <<>>
        /\ rl_last[1].op = "record_failure"
        /\ d \in DOMAIN domain_delays
        /\ domain_delays[d] = Scaled(MaxDelay)

\* the step is the call that rl_last' describes
LimiterCalled(op) ==
    /\ rl_last' # <<>>
    /\ rl_last'[1].op = op
    /\ rl_calls' # rl_calls

\* C16: record_failure(domain, status) sets current_delay to
\* min(max_delay, current_delay * m), m = 2 for a 429, 3 for a 403 once the
\* count of consecutive failures, this one included, is at least 3, and 1.5
\* otherwise; record_success sets it to max(min_delay, current_delay * 0.9)
\* and the count of consecutive failures to 0.
C16_DelayUpdate ==
    [][/\ LimiterCalled("record_failure") =>
            LET d == rl_last'[1].domain
                status == rl_last'[1].status
                n == Get(rl_failure_counts, d, 0) + 1
                cur == CurrentDelay(d)
                product == IF status = 429 THEN 2 * cur
                           ELSE IF status = 403 /\ n >= 3 THEN 3 * cur
                           ELSE (3 * cur) \div 2
            IN  /\ 2 * ((3 * cur) \div 2) = 3 * cur
                /\ domain_delays'[d] = Min(Scaled(MaxDelay), product)
                /\ rl_failure_counts'[d] = n
       /\ LimiterCalled("record_success") =>
            LET d == rl_last'[1].domain
                cur == CurrentDelay(d)
            IN  /\ 10 * (cur \div 10) = cur
                /\ domain_delays'[d] = Larger(Scaled(MinDelay), 9 * (cur \div 10))
                /\ rl_failure_counts'[d] = 0]_vars

\* a third failure in a row that is a 403 has tripled a delay, below max_delay
C16_Witness ==
    \E d \in Domains :
        /\ rl_last # <<>>
        /\ rl_last[1].op = "record_failure"
        /\ rl_last[1].status = 403
        /\ rl_failure_counts[d] = 3
        /\ 4 * domain_delays[d] = Scaled(MinDelay) * 27

\* this step is a return from wait_if_needed(d)
ReturnsFromWait(d) ==
    /\ rl_last' # <<>>
    /\ rl_last'[1].op = "return"
    /\ rl_last'[1].domain = d

\* C18: the tasks that call wait_if_needed(d) return from it one after
\* another: a return for d comes at least 0.8 times the current delay (the
\* delay less the largest jitter) after the previous return for d, never at
\* the same time.
C18_ReturnsSerialized ==
    [][\A d \in Domains :
        (ReturnsFromWait(d) /\ d \in DOMAIN last_request_time) =>
            5 * (rl_now - last_request_time[d]) >= 4 * rl_last'[1].delay]_vars

(* ------------------------- the scheduler tick -------------------------- *)
\* FeedChecker.check_all_feeds: the loop over the enabled feeds, one step per
\* feed (check_feed and the sleep after it).

\* the position of the loop after the body ran for the feed at i, when an
\* exception of the body ends the loop
NextIndexAbort(i, n, kind) ==
    IF kind \in {"raised_early", "raised"} THEN n + 1 ELSE i + 1

\* the position of the loop after the body ran for the feed at i: the
\* `except Exception` of the body ends in `continue`
NextIndex(i, n, kind) == i + 1

\* check_feed is called for a feed of this kind
CallsCheckFeed(kind) == kind \in {"ok", "failed", "raised"}

\* the stats dict after the body ran for a feed of this kind
StatsAfter(st, kind) ==
    [checked |-> st.checked + (IF CallsCheckFeed(kind) THEN 1 ELSE 0),
     skipped |-> st.skipped + (IF kind = "skip" THEN 1 ELSE 0),
     errors |-> st.errors + (IF kind \in {"failed", "raised_early", "raised"}
                             THEN 1 ELSE 0)]

\* the job fires: get_all_enabled_feeds, and the return when there are none
TickStart ==
    /\ tick_i = 0
    /\ \E feeds \in FeedLists :
        /\ tick_feeds' = feeds
        /\ tick_i' = IF feeds = <<>> THEN 0 ELSE 1
    /\ tick_checked' = {}
    /\ tick_stats' = [checked |-> 0, skipped |-> 0, errors |-> 0]
    /\ UNCHANGED outsideTick

\* one pass of `for feed in feeds`
CheckNext ==
    /\ tick_i \in 1..Len(tick_feeds)
    /\ LET kind == tick_feeds[tick_i]
       IN  /\ tick_checked' = IF CallsCheckFeed(kind)
                              THEN tick_checked \cup {tick_i} ELSE tick_checked
           /\ tick_stats' = StatsAfter(tick_stats, kind)
           /\ tick_i' = NextIndex(tick_i, Len(tick_feeds), kind)
    /\ UNCHANGED tick_feeds
    /\ UNCHANGED outsideTick

\* the loop is over: _log_summary, and the job returns
TickEnd ==
    /\ tick_i = Len(tick_feeds) + 1
    /\ tick_i' = 0
    /\ UNCHANGED <<tick_feeds, tick_checked, tick_stats>>
    /\ UNCHANGED outsideTick

InitTick == InitCB

NextTick ==
    \/ TickStart
    \/ CheckNext
    \/ TickEnd

SpecTick == InitTick /\ [][NextTick]_vars

\* the statistics on their own
InitStats == InitCB

NextStats ==
    \/ RecordRequestSuccess
    \/ RecordRequestFailure
    \/ CleanupOldStats
    \/ StatsElapse

SpecStats == InitStats /\ [][NextStats]_vars

\* the alert service on its own
InitAlert == InitCB

NextAlert ==
    \/ BlockedResponse
    \/ ParsedResponse
    \/ NoResponse
    \/ CheckSuccessRates
    \/ AlertAdvance

SpecAlert == InitAlert /\ [][NextAlert]_vars

(* ----------------------- properties of SpecTick ------------------------ *)
\* the tick is over: the loop has ended and the job has returned
TickOver == tick_i = 0

GetSent == fpc = "get" /\ prev_get' # prev_get

\* the breaker of the URL is open and its open_until has not passed
OpenNow(r) == StateOf(states, r) = STATE_OPEN /\ time < Get(open_until, r, 0)

\* C12: no GET for the URL is sent while its breaker is open and open_until
\* has not passed, in any pass of the retry loop: once a failure of this
\* fetch opens the breaker, the remaining attempts are not sent.
C12_NoGetWhileOpen == [][GetSent => ~OpenNow(FetchUrl)]_vars

\* the delay the limiter holds for the domain has passed, less the 20% of
\* the jitter, since the previous GET
SpacedFromPrevious ==
    prev_get # <<>> =>
        5 * Min(rl_now - prev_get[1].at, Scaled(MaxDelay)) >= 4 * CurrentDelay(FetchDomain)

\* C17: every GET the fetcher sends to the domain, the retries inside one
\* fetch included, is sent at least 0.8 * current_delay(domain) after the
\* previous GET to it.
C17_GetsSpaced == [][GetSent => SpacedFromPrevious]_vars

\* C19: the cache never holds a feed:{url} value with zero items: whatever
\* the responses of the fetches were, the value under the key, when there is
\* one, has at least one item.
C19_NoEmptyFeedEntry == feed_entry # <<>> => feed_entry[1] >= 1

\* a response without items and with an ETag was handled: feed_meta:{url} was
\* written and feed:{url} was not
C19_Witness == f_result = "ok_empty" /\ meta_entry /\ feed_entry = <<>>

\* the GET of this step is answered 304 and there is no cached feed with
\* items to return
UncachedNotModified == GetSent /\ prev_get'[1].uncached

\* this step sends the request that follows such a 304
FollowsUncachedNotModified == GetSent /\ prev_get # <<>> /\ prev_get[1].uncached

\* C20: when a GET is answered 304 and the feed:{url} entry is missing or
\* has no items, the fetcher deletes feed:{url} and feed_meta:{url}, and the
\* request that follows is sent without the stored validators.
C20_NotModifiedInvalidates ==
    [][/\ UncachedNotModified => (feed_entry' = <<>> /\ ~meta_entry')
       /\ FollowsUncachedNotModified => ~meta_entry]_vars

(* ------------------- more properties of Spec --------------------------- *)
\* check_feed returns in this step, and the fetch of the check had failed
FailedCheckEnds == pc = "done" /\ pc' = "idle" /\ ~fetched.success

\* C26: each failed check of a feed increments Feed.failures, and the
\* pipeline never changes the enabled flag of a feed.
C26_FailuresCounted ==
    [][/\ FailedCheckEnds => feed.failures = snap.failures + 1
       /\ feed'.enabled = feed.enabled]_vars

\* this step hands the item at the head of the loop to the chat backend
SendsHead == pc = "send" /\ attempted' > attempted

\* the age of the item, now minus pub_date in minutes, exceeds the
\* max_age_minutes of the feed
AgeExceeds(row, it, t) ==
    it.pub_date # NoDate /\ (t - it.pub_date) * MinutesPerUnit > row.max_age_minutes

DeliveredCount(tries) == Cardinality({k \in 1..Len(tries) : tries[k].delivered})

\* C24: for each new item the first send is in HTML mode; when it fails there
\* is one more send, in plain text; when both fail the item is skipped, and
\* an item that was skipped is not tried again by a later check. An item gets
\* at most two send attempts and at most one delivered message.
C24_HtmlThenPlainOnce ==
    [][SendsHead =>
        /\ Len(sends') \in 1..2
        /\ sends'[1].mode = "HTML"
        /\ ~sends'[1].delivered <=> Len(sends') = 2
        /\ Len(sends') = 2 => sends'[2].mode = "plain"
        /\ DeliveredCount(sends') <= 1
        /\ Delivered(sends') <=> Head(pending).id \in sentNow'
        /\ ~Delivered(sends') => Head(pending).id \in lost'
        /\ Head(pending).id \notin lost
        /\ Head(pending).id \notin notified]_vars

\* both sends of an item failed in an earlier check of a feed without age
\* filter, and this check has tried one other item and delivered it by the
\* fallback
C24_Witness ==
    /\ snap.max_age_minutes = 0
    /\ lost # {}
    /\ attempted = 1
    /\ sentNow # {}
    /\ Len(sends) = 2

(* ---------------------- properties of SpecStats ------------------------ *)

\* C27: for every domain row, after any sequence of record_request_success,
\* record_request_failure and reset_old_stats: successful_requests is at most
\* total_requests, blocked_requests + rate_limited_requests is at most
\* total_requests - successful_requests, and get_success_rate is between 0
\* and 100.
C27_CountersConsistent ==
    \A domain \in StatsDomains :
        /\ GetSuccessRate(stats_rows, domain) \in 0..100
        /\ domain \in DOMAIN stats_rows =>
              /\ stats_rows[domain].successful_requests
                     <= stats_rows[domain].total_requests
              /\ stats_rows[domain].blocked_requests
                     + stats_rows[domain].rate_limited_requests
                     <= stats_rows[domain].total_requests
                        - stats_rows[domain].successful_requests

\* a row that has counted a success, a 403 and a 429 and no other request
C27_Witness ==
    \E domain \in DOMAIN stats_rows :
        /\ stats_rows[domain].successful_requests = 1
        /\ stats_rows[domain].blocked_requests = 1
        /\ stats_rows[domain].rate_limited_requests = 1
        /\ stats_rows[domain].total_requests = 3
        /\ GetSuccessRate(stats_rows, domain) = 33

\* the step is a call of reset_old_stats
ResetCalled == stats_last' = "reset_old_stats"

\* the row is older than the cutoff of a reset that runs now
OlderThanCutoff(row) == row.updated_at < stats_now - ResetDays

\* C28: reset_old_stats(days) zeroes the counters and resets the delay of
\* exactly the rows whose updated_at is older than now minus days; on those
\* rows domain and preferred_user_agent are unchanged, and the rows that are
\* not older than the cutoff are not modified at all.
C28_ResetOnlyOldRows ==
    [][ResetCalled =>
          /\ DOMAIN stats_rows' = DOMAIN stats_rows
          /\ \A domain \in DOMAIN stats_rows :
                IF OlderThanCutoff(stats_rows[domain])
                THEN /\ stats_rows'[domain].total_requests = 0
                     /\ stats_rows'[domain].successful_requests = 0
                     /\ stats_rows'[domain].blocked_requests = 0
                     /\ stats_rows'[domain].rate_limited_requests = 0
                     /\ stats_rows'[domain].current_delay = Scaled(MinDelay)
                     /\ stats_rows'[domain].preferred_user_agent
                            = stats_rows[domain].preferred_user_agent
                ELSE stats_rows'[domain] = stats_rows[domain]]_vars

\* a reset has just zeroed a row with a learned User-Agent and left alone a
\* row that is exactly as old as the cutoff
C28_Witness ==
    /\ stats_last = "reset_old_stats"
    /\ \E a, b \in DOMAIN stats_rows :
          /\ stats_rows[a].total_requests = 0
          /\ stats_rows[a].preferred_user_agent # ""
          /\ stats_rows[a].updated_at = stats_now
          /\ stats_rows[b].total_requests > 0
          /\ stats_rows[b].updated_at = stats_now - ResetDays

(* ---------------------- properties of SpecAlert ------------------------ *)

\* the step emits a consecutive-blocks alert for the domain
BlockAlertEmitted(domain) == domain \in block_alerts'

\* the domain's last three responses, the one of this step included, are 403s
LastThreeBlocked(domain) == blocked_run'[domain] = 3

\* the domain's previous consecutive-blocks alert is more than the cooldown ago
CooldownOver(domain) ==
    domain \in DOMAIN consecutive_block_alerted =>
        time - consecutive_block_alerted[domain] > AlertCooldown

\* C29: a consecutive-blocks alert for a domain is emitted only when the
\* domain's last three or more recorded response outcomes were all 403, and
\* two consecutive-blocks alerts for the same domain are never emitted within
\* 1 hour of each other.
C29_AlertAfterThreeBlocksInARow ==
    [][\A domain \in AlertDomains :
          BlockAlertEmitted(domain) =>
              LastThreeBlocked(domain) /\ CooldownOver(domain)]_vars

(* ------------------- more properties of SpecFetch ---------------------- *)

\* the step answers a conditional GET with the cached feed
Served304 == fpc = "get" /\ f_result' = "not_modified"

\* the step records a success of the domain in the statistics
CountsSuccess(domain) ==
    /\ domain \in DOMAIN stats_rows'
    /\ stats_rows'[domain].total_requests =
           GetOrCreateStats(stats_rows, domain, stats_now).total_requests + 1
    /\ stats_rows'[domain].successful_requests =
           GetOrCreateStats(stats_rows, domain, stats_now).successful_requests + 1

\* the step lets the limiter's delay of the domain decay
DelayDecays(domain) ==
    Get(domain_delays', domain, Scaled(MinDelay))
        = DelayAfterSuccess(CurrentDelay(domain))

\* C21: when a conditional GET returns 304 and a non-empty cached feed
\* exists, the fetch returns that cached feed as success and the outcome is
\* recorded as a success: with the database up, the domain's total and
\* success counters are incremented, and the limiter's current_delay is
\* multiplied by 0.9 (floored at min_delay).
C21_NotModifiedCountsAsSuccess ==
    [][(Served304 /\ db_up) =>
          CountsSuccess(FetchDomain) /\ DelayDecays(FetchDomain)]_vars

\* the results a call can return
Results == {"circuit_open", "cached", "not_modified", "ok", "ok_empty", "failed"}

\* C22: for every sequence of transport outcomes (timeout, non-2xx status,
\* parse error), the call sends at most max_retries = 3 GETs and returns a
\* structured result; it never propagates an exception to its caller, and
\* when all attempts fail the error is that of the last attempt.
C22_StructuredResultLastError ==
    /\ attempt <= MaxRetries
    /\ f_result # "raised"
    /\ (fpc = "idle" /\ fetches > 0) => f_result \in Results
    /\ f_result = "failed" =>
          /\ attempt = MaxRetries
          /\ last_error # ""
          /\ last_error = prev_get[1].error

\* a call failed on a timeout after an earlier attempt of it was answered 403
C22_Witness ==
    /\ fetches = 1
    /\ fpc = "idle"
    /\ f_result = "failed"
    /\ last_error = "timeout"
    /\ Get(consecutive_blocks, FetchDomain, 0) = 1

\* the step returns success to the caller: from the cache at the top of the
\* call, or from the retry loop
ReturnsSuccess ==
    /\ fpc \in {"idle", "get"}
    /\ fpc' = "idle"
    /\ fetches' > fetches \/ fpc = "get"
    /\ f_result' \in {"cached", "not_modified", "ok", "ok_empty"}

\* C30: whenever the fetcher returns success for a URL of domain D (fresh
\* 2xx parse, served 304, or cache hit, and also when the stats-store write
\* fails), the alert manager's consecutive-403 counter for D is 0 afterwards.
C30_SuccessResetsBlocks ==
    [][ReturnsSuccess => Get(consecutive_blocks', FetchDomain, 0) = 0]_vars

(* ------------------- a check whose fetch gave nothing ------------------- *)
\* check_feed is past get_new_items, and the fetch of this check failed or
\* returned a feed without items
FetchGaveNothing ==
    /\ pc \in {"commit", "send", "done"}
    /\ ~fetched.success \/ fetched.items = <<>>

\* C39: when the fetch of a feed fails or returns no items, check_feed sends
\* no notification, leaves last_item_id and last_notified_at of the row as
\* they were, and still sets last_check to the current time.
C39_NothingFetchedOnlyLastCheck ==
    [][FetchGaveNothing =>
        /\ attempted' = 0
        /\ sends' = <<>>
        /\ notified' = notified
        /\ feed'.last_item_id = snap.last_item_id
        /\ feed'.last_notified_at = snap.last_notified_at
        /\ pc = "commit" => (pc' = "done" /\ feed'.last_check = utcnow)
        /\ pc # "commit" => feed'.last_check = utcnow]_vars

\* a feed that has a baseline and a notified item was checked two units
\* later, the fetch failed, and the check has returned to its end
C39_Witness ==
    /\ pc = "done"
    /\ ~fetched.success
    /\ snap.last_item_id # NoId
    /\ snap.last_notified_at # NoDate
    /\ notified # {}
    /\ feed.last_check = utcnow
    /\ snap.last_check < utcnow

(* ----------------- check_feed with a failing row update ----------------- *)
\* await feed_service.update_feed_last_check(...) when the database raises
\* inside it (session.get or session.commit): the except clause logs the
\* error and the call returns None like a successful one, so check_feed goes
\* on to the notification loop with the row as it was
CommitFails ==
    /\ UNCHANGED outsidePipe
    /\ pc = "commit"
    /\ committed' = TRUE
    /\ pc' = PcAfterCommit(pending)
    /\ UNCHANGED <<utcnow, remote, cacheOn, cache, feed, snap, fetched, result,
                   new_last_item_id, last_notified, pending, baseFeed, attempted,
                   sends, sentNow, lost, baselineIds, notified, dirty, stable>>

NextDb ==
    \/ Next
    \/ CommitFails

\* the pipeline over a database whose writes can fail
SpecDb == Init /\ [][NextDb]_vars

\* the step delivers the item at the head of the notification loop
DeliversHead == SendsHead /\ Delivered(sends')

\* C38: across any sequence of scheduler ticks no feed item is delivered more
\* than once, also when the update of last_item_id / last_notified_at fails.
C38_NoItemDeliveredTwice ==
    [][DeliversHead => Head(pending).id \notin notified]_vars

(* ------------------ what one failed HTTP attempt records ---------------- *)
\* the step is an attempt whose GET was answered with an error status
HttpErrorAttempt ==
    /\ fpc = "get"
    /\ fpc' # "get"
    /\ last_error' = "http"

\* C37: an attempt that ends in an error status is recorded as one failure:
\* one record_failure of the limiter, one of the User-Agent pool, one of the
\* breaker, and one more request in the statistics row of the domain, counted
\* in the 403 bucket when the status is 403.
C37_OneFailurePerAttempt ==
    [][HttpErrorAttempt =>
        /\ Get(rl_failure_counts', FetchDomain, 0)
              = Get(rl_failure_counts, FetchDomain, 0) + 1
        /\ domain_preferences'.failure = domain_preferences.failure + 1
        /\ Get(failure_counts', FetchUrl, 0) = Get(failure_counts, FetchUrl, 0) + 1
        /\ db_up =>
              LET row == GetOrCreateStats(stats_rows, FetchDomain, stats_now)
              IN  /\ stats_rows'[FetchDomain].total_requests
                        = row.total_requests + 1
                  /\ stats_rows'[FetchDomain].blocked_requests
                        = row.blocked_requests + 1]_vars

(* ------------------------ low-success-rate alerts ----------------------- *)
\* C36: a low-success-rate alert is emitted only for a success rate below 50
\* percent over at least 10 requests, and never within one hour of the last
\* such alert for the same domain, whether the fetcher or the hourly monitor
\* job made the call.
C36_LowRateAlertOnlyWhenDue ==
    [][\A alert \in low_alerts' :
        /\ alert.success_rate < LowSuccessRate
        /\ alert.total_requests >= MinAlertRequests
        /\ alert.domain \in DOMAIN low_success_rate_alerted =>
              time - low_success_rate_alerted[alert.domain] > AlertCooldown
        /\ alert.last_alerted # None =>
              time - alert.last_alerted[1] > AlertCooldown
        /\ low_success_rate_alerted'[alert.domain] = time]_vars

\* the monitor job alerts for both domains at once, for one of them the
\* second time, later than one hour after its first alert
C36_Witness ==
    /\ Cardinality(low_alerts) = 2
    /\ \E alert \in low_alerts :
          /\ alert.last_alerted # None
          /\ time - alert.last_alerted[1] > AlertCooldown
          /\ low_success_rate_alerted[alert.domain] = time

(* ----------------------- properties of SpecSession ---------------------- *)
InitSession == InitCB

NextSession ==
    \/ GetSession
    \/ GetSessionResume
    \/ ReleaseSession
    \/ CloseAllBegin
    \/ CloseAllResume
    \/ SessionAdvance
    \/ ShutdownBegin
    \/ ShutdownStopScheduler
    \/ ShutdownEnd

SpecSession == InitSession /\ [][NextSession]_vars

\* the step is a call of get_session by the task
CallsGetSession(task) ==
    /\ sm_tasks[task].pc = "idle"
    /\ sm_tasks'[task].pc \in {"using", "closing"}

\* C33: get_session(domain) never returns a session whose age is the TTL or
\* more: on access past the TTL the stored session is closed and a newly
\* created one is stored and returned; within the TTL the stored session is
\* returned as it is.
C33_ReturnedSessionWithinTtl ==
    [][/\ \A task \in SessionTasks : CallsGetSession(task) =>
            LET k == SessionIndex(sessions, sm_tasks'[task].domain)
            IN  /\ (k # 0 /\ time - sessions[k].created_at < SessionTtl) =>
                      /\ sm_tasks'[task].pc = "using"
                      /\ sm_tasks'[task].session = sessions[k].session
                      /\ UNCHANGED <<sessions, sm_open, sm_created>>
                /\ (k # 0 /\ time - sessions[k].created_at >= SessionTtl) =>
                      /\ sm_tasks'[task].pc = "closing"
                      /\ sessions[k].session \notin sm_open'
        /\ \A e \in 1..Len(sm_returned') :
            LET ret == sm_returned'[e]
                at == SessionIndex(sessions', ret.domain)
            IN  /\ ret.age < SessionTtl
                /\ at # 0
                /\ sessions'[at].session = ret.session
                /\ time - sessions'[at].created_at = ret.age
                /\ ret.created =>
                      /\ ret.session \notin StoredSessions(sessions)
                      /\ ret.session \in sm_open'
                      /\ ret.closed \cap sm_open' = {}]_vars

\* a session was stored for an hour or more, and the call closed it and
\* returned a new one
C33_Witness ==
    /\ sm_returned # <<>>
    /\ sm_returned[1].created
    /\ sm_returned[1].closed # {}
    /\ sm_returned[1].age = 0
    /\ time >= SessionTtl

\* C40: in every interleaving of get_session and close_all calls, every open
\* session the manager created is the one stored for its domain, and no
\* session is closed while it is the stored session a task was handed.
C40_OpenSessionsAreStored ==
    /\ sm_open \subseteq StoredSessions(sessions)
    /\ \A task \in SessionTasks :
          (/\ sm_tasks[task].pc = "using"
           /\ sm_tasks[task].session \in StoredSessions(sessions))
          => sm_tasks[task].session \in sm_open

\* C32: after shutdown_event has completed the scheduler is stopped and every
\* session the session manager created has been closed.
C32_ShutdownClosesSessions ==
    shutdown_pc = "stopped" => (~scheduler_running /\ sm_open = {})

(* ----------------------- properties of SpecReddit ----------------------- *)
InitReddit == InitCB

NextReddit ==
    \/ RedditBegin
    \/ RedditLearnedReturns
    \/ RedditMethodReturns
    \/ RedditAdvance

\* one call of fetch_reddit_feed at a time: the tick checks its feeds one
\* after another
SpecReddit == InitReddit /\ [][NextReddit]_vars

\* the methods a call has awaited, in order
MethodsTried(call) == [k \in 1..Len(call.tried) |-> call.tried[k].method]

\* the call found a method learned less than 24 hours before
FoundLearned(call) ==
    /\ call.learned # <<>>
    /\ call.began - call.learned[1].timestamp < MethodCacheTtl

\* the attempts of the call that follow the one of the learned method
AfterLearned(call) ==
    IF FoundLearned(call) THEN Tail(call.tried) ELSE call.tried

\* C31: fetch_reddit_feed tries the learned method first exactly when it was
\* recorded less than 24 hours ago; when that attempt fails the learned entry
\* is removed and rss, json, old_rss are tried in this order up to the first
\* success; after a successful return the learned entry names the method
\* that produced the result; the call fails only when every method it tried
\* failed.
C31_LearnedFirstThenFixedOrder ==
    LET call == rd_call
        rest == AfterLearned(call)
    IN  call.tried # <<>> =>
        /\ FoundLearned(call) => call.tried[1].method = call.learned[1].method
        /\ Len(rest) <= Len(Methods)
        /\ \A k \in 1..Len(rest) : rest[k].method = Methods[k]
        /\ \A k \in 1..(Len(call.tried) - 1) : ~call.tried[k].ok
        /\ (FoundLearned(call) /\ call.pc = "loop") => successful_methods = <<>>
        /\ call.result = "success" <=>
              (call.pc = "idle" /\ call.tried[Len(call.tried)].ok)
        /\ call.result = "success" =>
              /\ successful_methods # <<>>
              /\ successful_methods[1].method = call.tried[Len(call.tried)].method
        /\ call.result = "failed" <=>
              (/\ call.pc = "idle"
               /\ Len(rest) = Len(Methods)
               /\ \A k \in 1..Len(call.tried) : ~call.tried[k].ok)

\* a call found json learned less than 24 hours before, json failed, rss
\* failed too, and json succeeded on its turn in the list
C31_Witness ==
    /\ rd_call.pc = "idle"
    /\ rd_call.result = "success"
    /\ FoundLearned(rd_call)
    /\ MethodsTried(rd_call) = <<"json", "rss", "json">>
    /\ successful_methods = <<[method |-> "json", timestamp |-> rd_now]>>
    /\ rd_now > rd_call.began

(* ------------------------- properties of SpecSan ------------------------ *)
\* every text of SanInputs, with the rest of the program at rest
InitSan ==
    /\ PipeInit
    /\ cacheOn = FALSE
    /\ feed.max_age_minutes = 0
    /\ CBInit
    /\ RLInit
    /\ FetchInit
    /\ TickInit
    /\ StatsInit
    /\ AlertInit
    /\ SessionInit
    /\ RedditInit
    /\ SanInit

NextSan ==
    \/ Sanitize
    \/ SanitizeAgain

SpecSan == InitSan /\ [][NextSan]_vars

\* the tags of a text are Telegram's
OnlyTelegramTags(text) ==
    \A k \in 1..Len(text) : IsTag(text[k]) => text[k].name \in TelegramTags

\* from position k on, with the names in `stack` open: every closing tag
\* closes the tag opened last, and at the end no tag is open
RECURSIVE Nested(_, _, _)
Nested(text, k, stack) ==
    IF k > Len(text)
    THEN stack = <<>>
    ELSE IF text[k].kind = "open"
    THEN Nested(text, k + 1, Append(stack, text[k].name))
    ELSE IF text[k].kind = "close"
    THEN /\ stack # <<>>
         /\ stack[Len(stack)] = text[k].name
         /\ Nested(text, k + 1, SubSeq(stack, 1, Len(stack) - 1))
    ELSE Nested(text, k + 1, stack)

\* C34: for every input the output of sanitize_html_for_telegram has only
\* tags of {b, i, u, s, code, pre, a}, and every opening tag of it, every <a>
\* too, has its closing tag after it, properly nested.
C34_OnlyTelegramTagsNested ==
    san_pc \in {"once", "twice"} =>
        /\ OnlyTelegramTags(san_once)
        /\ Nested(san_once, 1, <<>>)

\* C35: sanitize_html_for_telegram is idempotent, also for a text with an
\* <a href> whose value has an & and for character data with entities.
C35_SanitizeIdempotent ==
    san_pc = "twice" => san_twice = san_once

====
